---- MODULE Spec2Model ----
(***************************************************************************)
(* iterator_item: generator items desugared onto the Generator primitive.  *)
(*                                                                         *)
(* The model has three layers:                                             *)
(*   1. the syntax trees the procedural macro works on (expressions,       *)
(*      types, attributes) and the rewriting done by Visitor /             *)
(*      BodyVisitor, IteratorItemParse::build and GenMacro::build;         *)
(*   2. the macro_rules! helpers of the runtime crate (gen_try,            *)
(*      async_gen_try, async_gen_yield, async_gen_await) as tree           *)
(*      templates, and the evaluation of the lowered closure body as a     *)
(*      resumable computation (Generator::resume);                         *)
(*   3. the producer wrappers IteratorItem / AsyncIteratorItem, driven by  *)
(*      next, poll_next and size_hint.                                     *)
(***************************************************************************)
EXTENDS Integers, Sequences, FiniteSets, TLC

VARIABLES
    decl,       \* the parsed item (IteratorItemParse) or the gen block (Macro)
    phase,      \* "source" -> "expanded" -> "running"
    lowered,    \* the emitted producer expression
    diags,      \* diagnostics emitted during expansion, in emission order
    producer,   \* IteratorItem / AsyncIteratorItem { gen, size_hint }
    out,        \* results returned by next / poll_next, in call order
    hints,      \* the results size_hint() has returned
    panics,     \* panics raised while driving the producer
    pull,       \* the last call of next / poll_next
    entry,      \* the parser a token stream is handed to ("none": no stream)
    input,      \* the token stream
    parsed,     \* what the parser returned and the diagnostics it emitted
    merge       \* the two iterators of tests/merge_overlapping_intervals.rs

pvars == <<entry, input, parsed, merge>>
vars == <<decl, phase, lowered, diags, producer, out, hints, panics, pull, pvars>>

\* ------------------------------------------------------------------ bounds
MaxStmts == 2
MaxSegs  == 2
MaxAttrs == 2
MaxPend  == 1
MaxIter  == 3
MaxToks  == 4
MaxLen   == 3
MaxTrees == 3
MaxDepth == 3
MaxEnd   == 2

\* ------------------------------------------------------- syntax tree nodes
\* Every node of a body has the same shape: a kind k, an integer payload v, a
\* string payload s, attributes at, and the child nodes sub.
N(k, v, s, sub) == [k |-> k, v |-> v, s |-> s, at |-> <<>>, sub |-> sub]

Lit(n)        == N("lit", n, "", <<>>)
UnitE         == N("unit", 0, "", <<>>)
NoneE         == N("none", 0, "", <<>>)
Wrap(tag, e)  == N("wrap", 0, tag, <<e>>)
Var(x)        == N("var", x, "", <<>>)
Let(x, e)     == N("let", x, "", <<e>>)
Take(x)       == N("take", x, "", <<>>)
Fut(p, n)     == N("fut", p, "", <<Lit(n)>>)
Yield(e)      == N("yield", 0, "", <<e>>)
YieldNone     == N("yield", 0, "", <<>>)
Return(e)     == N("return", 0, "", <<e>>)
ReturnNone    == N("return", 0, "", <<>>)
Try(e)        == N("try", 0, "", <<e>>)
Await(e)      == N("await", 0, "", <<e>>)
Block(ss)     == N("block", 0, "", ss)
ForRange(x, lo, hi, b) == N("for", x, "", <<Lit(lo), Lit(hi), b>>)
\* `for x in iter { b }` over the iterator the function takes as its argument.
ForIter(x, b) == N("for_iter", x, "", <<b>>)
PanicE        == N("panic", 0, "", <<>>)
MacroCall(name, args) == N("macro", 0, name, args)
\* Stmt::Item(Item::Macro): `#[attrs] name! { tokens }` in statement position,
\* and Expr::Macro with attributes.  v = 1: the tokens are not statements.
ItemMacro(name, attrs, v, stmts) == [N("item_macro", v, name, stmts) EXCEPT !.at = attrs]
ExprMacro(name, attrs, v, stmts) == [N("macro", v, name, stmts) EXCEPT !.at = attrs]
IsMacro(i) == i.k \in {"macro", "item_macro"}
CtxVar        == N("stream_ctx", 0, "", <<>>)
\* Expr::Closure `|| e` and Stmt::Item(Item::Fn) `fn bar() { e }` in a body.
Closure(e)    == N("closure", 0, "", <<e>>)
FnItem(e)     == N("fn_item", 0, "", <<Block(<<e>>)>>)

\* --------------------------------------------------------- types, attributes
TypePath(q, segs) == [k |-> "path", qself |-> q, segments |-> segs]
TypeTuple         == [k |-> "tuple", qself |-> FALSE, segments |-> <<>>]
TypeReference(segs) == [k |-> "reference", qself |-> FALSE, segments |-> segs]

Pair(lo, hi) == [k |-> "pair", lo |-> lo, hi |-> hi]
NoTokens     == [k |-> "none", lo |-> 0, hi |-> <<>>]
\* `{ let (x, y) = iter.size_hint(); (x + n, y.map(|y| y + n)) }`
IterHint(n)  == [k |-> "iter_plus", lo |-> n, hi |-> <<n>>]
Attribute(name, tokens) == [path |-> name, tokens |-> tokens]

\* ---------------------------------------------------------------- Visitor
\* The diagnostic of lib.rs:410-414 / expand.rs:179-183, at the span of the
\* returned expression (a span is the path of child indices from the body).
ReturnValueDiagnostic(span) ==
    [level |-> "error",
     message |-> "iterator items can't return a non-unit value",
     help |-> "returning in an iterator is only meant for stopping the iterator",
     span |-> span]

RECURSIVE ConcatDiags(_, _)
ConcatDiags(kids, j) ==
    IF j > Len(kids) THEN <<>> ELSE kids[j].d \o ConcatDiags(kids, j + 1)

\* Variant: the traversal stays out of closures and nested function items.
VisitedChildren_skips_nested_fns(i) ==
    IF IsMacro(i) \/ i.k \in {"closure", "fn_item"} THEN 0 ELSE Len(i.sub)

\* syn::visit_mut::visit_expr_mut does not look into the tokens of a macro
\* invocation: an Expr::Macro has no child expressions.
VisitedChildren(i) == IF IsMacro(i) THEN 0 ELSE Len(i.sub)

\* Variant: the arm for Expr::Return emits the diagnostic and keeps the
\* returned expression.
Visitor_return_keeps_value(c, d, span) ==
    [e |-> c,
     d |-> IF Len(c.sub) > 0 THEN d \o <<ReturnValueDiagnostic(span \o <<1>>)>> ELSE d]

\* Variant: the arm for Expr::Yield rewrites `yield e` and leaves the bare
\* `yield` as it is.
Visitor_yield_drops_bare(c, d) ==
    IF Len(c.sub) = 1
    THEN [e |-> MacroCall("async_gen_yield", <<c.sub[1]>>), d |-> d]
    ELSE [e |-> c, d |-> d]

\* Variant: the arm for Expr::Try picks the yielding macro whatever
\* is_try_yield says.
TryMacroName_always_yields(is_async, is_try_yield) ==
    IF is_async THEN "async_gen_try" ELSE "gen_try"

\* The arms of `match i { .. }` in Visitor::visit_expr_mut; c is the node
\* with its children already visited, d the diagnostics emitted so far.
\* Expr::Return: a diagnostic at the returned expression, which is dropped.
Visitor_return(c, d, span) ==
    [e |-> [c EXCEPT !.sub = <<>>],
     d |-> IF Len(c.sub) > 0 THEN d \o <<ReturnValueDiagnostic(span \o <<1>>)>> ELSE d]

\* Expr::Yield when is_async: `yield e` and the bare `yield`.
Visitor_yield(c, d) ==
    IF Len(c.sub) = 1
    THEN [e |-> MacroCall("async_gen_yield", <<c.sub[1]>>), d |-> d]
    ELSE [e |-> MacroCall("async_gen_yield", <<UnitE>>), d |-> d]

\* Variant: the arm for Expr::Await leaves the expression as it is.
Visitor_await_unrewritten(c, d) == [e |-> c, d |-> d]

\* Expr::Await when is_async.
Visitor_await(c, d) ==
    [e |-> MacroCall("async_gen_await", <<c.sub[1], CtxVar>>), d |-> d]

\* Expr::Try: the macro chosen by (is_async, is_try_yield).
TryMacroName(is_async, is_try_yield) ==
    CASE is_async /\ is_try_yield       -> "async_gen_try"
      [] (~is_async) /\ is_try_yield    -> "gen_try"
      [] is_async /\ ~is_try_yield      -> "async_gen_try_bare"
      [] (~is_async) /\ ~is_try_yield   -> "gen_try_bare"

\* Variant: the node is matched first and the children of what it became are
\* visited after.
RECURSIVE Visitor_visit_expr_mut_parent_first(_, _, _, _)
Visitor_visit_expr_mut_parent_first(is_async, is_try_yield, i, span) ==
    LET m == CASE i.k = "return"             -> Visitor_return(i, <<>>, span)
               [] i.k = "yield" /\ is_async  -> Visitor_yield(i, <<>>)
               [] i.k = "await" /\ is_async  -> Visitor_await(i, <<>>)
               [] i.k = "try" ->
                    [e |-> MacroCall(TryMacroName(is_async, is_try_yield), <<i.sub[1]>>),
                     d |-> <<>>]
               [] OTHER -> [e |-> i, d |-> <<>>]
        kids == <<>> \o [j \in 1..VisitedChildren(m.e) |->
                    Visitor_visit_expr_mut_parent_first(is_async, is_try_yield,
                                                        m.e.sub[j], span \o <<j>>)]
    IN  [e |-> IF VisitedChildren(m.e) = 0 THEN m.e
               ELSE [m.e EXCEPT !.sub = [j \in 1..Len(m.e.sub) |-> kids[j].e]],
         d |-> m.d \o ConcatDiags(kids, 1)]

\* Variant: the arms for Expr::Yield and Expr::Await without their
\* `if self.is_async` guards.
RECURSIVE Visitor_visit_expr_mut_unguarded(_, _, _, _)
Visitor_visit_expr_mut_unguarded(is_async, is_try_yield, i, span) ==
    LET kids == <<>> \o [j \in 1..VisitedChildren(i) |->
                    Visitor_visit_expr_mut_unguarded(is_async, is_try_yield,
                                                     i.sub[j], span \o <<j>>)]
        c    == IF VisitedChildren(i) = 0 THEN i
                ELSE [i EXCEPT !.sub = [j \in 1..Len(i.sub) |-> kids[j].e]]
        d    == ConcatDiags(kids, 1)
    IN  CASE c.k = "return" -> Visitor_return(c, d, span)
          [] c.k = "yield"  -> Visitor_yield(c, d)
          [] c.k = "await"  -> Visitor_await(c, d)
          [] c.k = "try" ->
               [e |-> MacroCall(TryMacroName(is_async, is_try_yield), <<c.sub[1]>>),
                d |-> d]
          [] OTHER -> [e |-> c, d |-> d]

\* Visitor::visit_expr_mut of the item form: children first, then the node.
\* The result is the rewritten node e and the diagnostics d emitted on the way.
RECURSIVE Visitor_visit_expr_mut(_, _, _, _)
Visitor_visit_expr_mut(is_async, is_try_yield, i, span) ==
    LET kids == <<>> \o [j \in 1..VisitedChildren(i) |->
                    Visitor_visit_expr_mut(is_async, is_try_yield, i.sub[j], span \o <<j>>)]
        c    == IF VisitedChildren(i) = 0 THEN i
                ELSE [i EXCEPT !.sub = [j \in 1..Len(i.sub) |-> kids[j].e]]
        d    == ConcatDiags(kids, 1)
    IN  CASE c.k = "return"             -> Visitor_return(c, d, span)
          [] c.k = "yield" /\ is_async  -> Visitor_yield(c, d)
          [] c.k = "await" /\ is_async  -> Visitor_await(c, d)
          [] c.k = "try" ->
               [e |-> MacroCall(TryMacroName(is_async, is_try_yield), <<c.sub[1]>>),
                d |-> d]
          [] OTHER -> [e |-> c, d |-> d]

\* BodyVisitor::visit_expr_mut of the gen-block form (expand.rs): the same
\* rewrite, written a second time in the source.
BodyVisitor_return(c, d, span) ==
    [e |-> [c EXCEPT !.sub = <<>>],
     d |-> IF Len(c.sub) > 0 THEN d \o <<ReturnValueDiagnostic(span \o <<1>>)>> ELSE d]

BodyVisitor_yield(c, d) ==
    IF Len(c.sub) = 1
    THEN [e |-> MacroCall("async_gen_yield", <<c.sub[1]>>), d |-> d]
    ELSE [e |-> MacroCall("async_gen_yield", <<UnitE>>), d |-> d]

BodyVisitor_await(c, d) ==
    [e |-> MacroCall("async_gen_await", <<c.sub[1], CtxVar>>), d |-> d]

BodyTryMacroName(is_async, is_try_yield) ==
    CASE is_async /\ is_try_yield       -> "async_gen_try"
      [] (~is_async) /\ is_try_yield    -> "gen_try"
      [] is_async /\ ~is_try_yield      -> "async_gen_try_bare"
      [] (~is_async) /\ ~is_try_yield   -> "gen_try_bare"

RECURSIVE BodyVisitor_visit_expr_mut(_, _, _, _)
BodyVisitor_visit_expr_mut(is_async, is_try_yield, i, span) ==
    LET kids == <<>> \o [j \in 1..VisitedChildren(i) |->
                    BodyVisitor_visit_expr_mut(is_async, is_try_yield, i.sub[j], span \o <<j>>)]
        c    == IF VisitedChildren(i) = 0 THEN i
                ELSE [i EXCEPT !.sub = [j \in 1..Len(i.sub) |-> kids[j].e]]
        d    == ConcatDiags(kids, 1)
    IN  CASE c.k = "return"             -> BodyVisitor_return(c, d, span)
          [] c.k = "yield" /\ is_async  -> BodyVisitor_yield(c, d)
          [] c.k = "await" /\ is_async  -> BodyVisitor_await(c, d)
          [] c.k = "try" ->
               [e |-> MacroCall(BodyTryMacroName(is_async, is_try_yield), <<c.sub[1]>>),
                d |-> d]
          [] OTHER -> [e |-> c, d |-> d]

\* ------------------------------------------------------------- the assembler
\* Variant: a tail without its leading `return`.
tail_without_return == Block(<<Yield(PanicE)>>)

\* The synthetic tail `{ return; yield panic!(); }` appended to every body.
tail == Block(<<ReturnNone, Yield(PanicE)>>)

\* Variant: is_try_yield looks at the last segment of a path of any length.
IsTryYield_last_segment(yields) ==
    IF yields.k = "path" /\ ~yields.qself
    THEN Len(yields.segments) > 0
         /\ yields.segments[Len(yields.segments)] \in {"Result", "Option"}
    ELSE FALSE

\* is_try_yield of IteratorItemParse::build: a Type::Path without qself whose
\* path has one segment, named Result or Option.
IsTryYield(yields) ==
    IF yields.k = "path" /\ ~yields.qself
    THEN LET is_try == IF Len(yields.segments) = 0 THEN FALSE
                       ELSE yields.segments[1] \in {"Result", "Option"}
         IN  Len(yields.segments) = 1 /\ is_try
    ELSE FALSE

\* attributes.retain(..): drops every size_hint attribute, and each one met
\* overwrites final_size_hint.
RECURSIVE RetainAttributes(_, _)
RetainAttributes(attributes, j) ==
    IF j > Len(attributes) THEN <<>>
    ELSE IF attributes[j].path = "size_hint"
         THEN RetainAttributes(attributes, j + 1)
         ELSE <<attributes[j]>> \o RetainAttributes(attributes, j + 1)

\* Variant: the first size_hint attribute is kept, later ones do not overwrite.
FinalSizeHint_first_wins(attributes, j, acc) ==
    LET found == {k \in j..Len(attributes) : attributes[k].path = "size_hint"}
    IN  IF found = {} THEN acc
        ELSE attributes[CHOOSE k \in found : \A m \in found : k <= m].tokens

\* Variant: the size_hint attributes are dropped and their tokens not kept.
FinalSizeHint_ignored(attributes, j, acc) == acc

RECURSIVE FinalSizeHint(_, _, _)
FinalSizeHint(attributes, j, acc) ==
    IF j > Len(attributes) THEN acc
    ELSE FinalSizeHint(attributes, j + 1,
                       IF attributes[j].path = "size_hint"
                       THEN attributes[j].tokens ELSE acc)

DefaultSizeHint == Pair(0, <<>>)

\* The statements of the emitted function body, in the order of the quote!.
FnBody == <<"let size_hint", "let gen", "expansion">>

\* Variant: build puts the tail in front of the user's body.
IteratorItemParse_build_tail_first(item) ==
    LET yields == IF Len(item.yields) = 1 THEN item.yields[1] ELSE TypeTuple
        is_try_yield == IsTryYield(yields)
        visited == Visitor_visit_expr_mut(item.is_async, is_try_yield, item.body, <<>>)
        hint0 == IF item.size_hint.k # "none" THEN item.size_hint ELSE DefaultSizeHint
    IN  [ok           |-> TRUE,
         attributes   |-> RetainAttributes(item.attributes, 1),
         is_async     |-> item.is_async,
         is_try_yield |-> is_try_yield,
         return_type  |-> IF item.is_async THEN "impl Stream" ELSE "impl Iterator",
         item_type    |-> yields,
         size_hint    |-> FinalSizeHint(item.attributes, 1, hint0),
         fn_body      |-> FnBody,
         gen_body     |-> Block(<<tail, visited.e>>),
         diags        |-> visited.d]

\* IteratorItemParse::build: the emitted function, as the attributes kept on
\* it, its return type and the producer expression of its body.
IteratorItemParse_build(item) ==
    LET yields == IF Len(item.yields) = 1 THEN item.yields[1] ELSE TypeTuple
        is_try_yield == IsTryYield(yields)
        visited == Visitor_visit_expr_mut(item.is_async, is_try_yield, item.body, <<>>)
        hint0 == IF item.size_hint.k # "none" THEN item.size_hint ELSE DefaultSizeHint
    IN  [ok           |-> TRUE,
         attributes   |-> RetainAttributes(item.attributes, 1),
         is_async     |-> item.is_async,
         is_try_yield |-> is_try_yield,
         return_type  |-> IF item.is_async THEN "impl Stream" ELSE "impl Iterator",
         item_type    |-> yields,
         size_hint    |-> FinalSizeHint(item.attributes, 1, hint0),
         fn_body      |-> FnBody,
         gen_body     |-> Block(<<visited.e, tail>>),
         diags        |-> visited.d]

\* GenMacro::build: the producer expression a gen block is replaced by.
GenMacro_build(gen) ==
    LET visited == BodyVisitor_visit_expr_mut(gen.is_async, gen.is_try_yield, gen.body, <<>>)
    IN  [ok           |-> TRUE,
         attributes   |-> <<>>,
         is_async     |-> gen.is_async,
         is_try_yield |-> gen.is_try_yield,
         return_type  |-> "",
         item_type    |-> TypeTuple,
         size_hint    |-> FinalSizeHint(gen.attributes, 1, DefaultSizeHint),
         fn_body      |-> FnBody,
         gen_body     |-> Block(<<visited.e, tail>>),
         diags        |-> visited.d]

\* Variant: the parsed block starts in try-yield mode.
GenMacro_parse_try_yield(mac) ==
    [body |-> Block(mac.sub), is_async |-> FALSE, is_try_yield |-> TRUE,
     attributes |-> <<>>]

\* impl Parse for GenMacro: the tokens of the invocation parsed as the
\* statements of a block; both flags start false and there are no attributes.
GenMacro_parse(mac) ==
    [body |-> Block(mac.sub), is_async |-> FALSE, is_try_yield |-> FALSE,
     attributes |-> <<>>]

\* Nothing expanded.
NoLowered ==
    [ok |-> FALSE, attributes |-> <<>>, is_async |-> FALSE, is_try_yield |-> FALSE,
     return_type |-> "", item_type |-> TypeTuple, size_hint |-> NoTokens,
     fn_body |-> <<>>, gen_body |-> Block(<<>>), diags |-> <<>>]

\* mac.parse_body::<GenMacro>() fails when Block::parse_within does.
ParsesAsBlock(mac) == mac.v = 0
\* `{ #e }` with e = e.into_compile_error()
CompileErrorBlock == Block(<<N("compile_error", 0, "", <<>>)>>)
\* What convert_macro returns for tokens that do not parse.
ConvertError == [NoLowered EXCEPT !.fn_body = <<"compile_error">>]

\* Variant: convert_macro does not hand the statement's attributes to the
\* parsed block.
GenMacro_convert_macro_drops_attributes(mac, attributes) ==
    LET is_gen == mac.s = "gen"
        is_async_gen == mac.s = "async_gen"
        gen == GenMacro_parse(mac)
    IN  IF is_gen \/ is_async_gen
        THEN <<GenMacro_build([gen EXCEPT !.is_async = is_async_gen])>>
        ELSE <<>>

\* GenMacro::convert_macro: Some(producer) for gen! / async_gen!, None (<<>>)
\* for any other macro.
GenMacro_convert_macro(mac, attributes) ==
    LET is_gen == mac.s = "gen"
        is_async_gen == mac.s = "async_gen"
        gen == GenMacro_parse(mac)
    IN  IF is_gen \/ is_async_gen
        THEN IF ParsesAsBlock(mac)
             THEN <<GenMacro_build([gen EXCEPT !.is_async = is_async_gen,
                                               !.attributes = @ \o attributes])>>
             ELSE <<ConvertError>>
        ELSE <<>>

\* The expression convert_macro returns: the block
\* `{ let size_hint = ..; let gen = closure; IteratorItem { gen, size_hint } }`
\* with the closure body as its child, or the error block.
ExprOf(l) ==
    IF l.ok
    THEN [k |-> "producer", v |-> 0,
          s |-> IF l.is_async THEN "AsyncIteratorItem" ELSE "IteratorItem",
          at |-> <<l.size_hint>>, sub |-> <<l.gen_body>>]
    ELSE CompileErrorBlock

\* Variant: a block that does not parse is left as it is.
GenMacroExpander_convert_skips_errors(i) ==
    LET e == GenMacro_convert_macro(i, i.at)
    IN  IF Len(e) = 1 /\ e[1].ok THEN ExprOf(e[1]) ELSE i

\* The `if let Some(e) = GenMacro::convert_macro(..)` of visit_stmt_mut and
\* visit_expr_mut: the node a macro invocation is replaced by, itself for a
\* macro that is no generator block.
GenMacroExpander_convert(i) ==
    LET e == GenMacro_convert_macro(i, i.at)
    IN  IF Len(e) = 1 THEN ExprOf(e[1]) ELSE i

\* GenMacroExpander::visit_stmt_mut / visit_expr_mut: a macro invocation is
\* converted and what replaces it is not visited; any other node is visited
\* child by child.
RECURSIVE GenMacroExpander_visit(_)
GenMacroExpander_visit(i) ==
    IF IsMacro(i) THEN GenMacroExpander_convert(i)
    ELSE [i EXCEPT !.sub = [j \in 1..Len(i.sub) |-> GenMacroExpander_visit(i.sub[j])]]

\* ------------------------------------------- the macro_rules! of the runtime
ErrVar            == N("err", 0, "", <<>>)
FromResidual(e)   == N("from_residual", 0, "", <<e>>)
MatchBranch(e, on_break) == N("match_branch", 0, "", <<e, on_break>>)

\* Variant: gen_try! whose Break arm yields the failure and does not return.
gen_try_without_return(e) ==
    MatchBranch(e, Block(<<Yield(FromResidual(ErrVar))>>))

\* Variant: gen_try! whose Break arm returns and does not yield the failure.
gen_try_without_yield(e) ==
    MatchBranch(e, Block(<<ReturnNone>>))

\* gen_try!: match Try::branch($e) { Continue(ok) => ok,
\*           Break(err) => { yield FromResidual::from_residual(err); return; } }
gen_try(e) ==
    MatchBranch(e, Block(<<Yield(FromResidual(ErrVar)), ReturnNone>>))

\* async_gen_try!: the same with the yielded value wrapped in Poll::Ready.
async_gen_try(e) ==
    MatchBranch(e, Block(<<Yield(Wrap("Ready", FromResidual(ErrVar))), ReturnNone>>))

\* gen_try_bare! / async_gen_try_bare!: named by the rewriter, defined in no
\* file of src/; on Break the body returns without suspending.
gen_try_bare(e)       == MatchBranch(e, Block(<<ReturnNone>>))
async_gen_try_bare(e) == MatchBranch(e, Block(<<ReturnNone>>))

\* async_gen_yield!: yield Poll::Ready($e)
async_gen_yield(e) == Yield(Wrap("Ready", e))

\* async_gen_await!: the context is read from $ctx once, then $e is evaluated
\* and polled in a loop; on Pending the body suspends and $ctx is rebound.
async_gen_await(e, ctx) == N("await_loop", 0, "", <<e, ctx>>)

\* Expansion of the helper macros wherever the rewriter put them.
RECURSIVE ExpandMacros(_)
ExpandMacros(e) ==
    LET sub == [j \in 1..Len(e.sub) |-> ExpandMacros(e.sub[j])]
    IN  CASE e.k = "macro" /\ e.s = "gen_try"            -> gen_try(sub[1])
          [] e.k = "macro" /\ e.s = "async_gen_try"      -> async_gen_try(sub[1])
          [] e.k = "macro" /\ e.s = "gen_try_bare"       -> gen_try_bare(sub[1])
          [] e.k = "macro" /\ e.s = "async_gen_try_bare" -> async_gen_try_bare(sub[1])
          [] e.k = "macro" /\ e.s = "async_gen_yield"    -> async_gen_yield(sub[1])
          [] e.k = "macro" /\ e.s = "async_gen_await"    -> async_gen_await(sub[1], sub[2])
          [] e.k = "macro"                               -> e
          [] OTHER                                       -> [e EXCEPT !.sub = sub]

\* ------------------------------------------------- the resumable computation
\* Values: an integer n under a stack of constructors w (Some, Ok, Err, Ready,
\* ...); a future also carries p, the number of polls it still answers
\* Pending.
V(w, n)      == [w |-> w, n |-> n, p |-> 0]
UnitV        == V(<<"()">>, 0)
NoneV        == V(<<"None">>, 0)
PendingV     == V(<<"Pending">>, 0)
UninitV      == V(<<"uninit">>, 0)
CtxV(c)      == V(<<"Context">>, c)
Wrapped(tag, v) == [v EXCEPT !.w = <<tag>> \o @]
Unwrapped(v)    == [v EXCEPT !.w = Tail(@)]
Is(v, tag)      == Len(v.w) > 0 /\ v.w[1] = tag

\* Try::branch of Result and Option.
IsContinue(v) == Is(v, "Ok") \/ Is(v, "Some")
IsBreak(v)    == Is(v, "Err") \/ Is(v, "None")

\* FromResidual::from_residual: Err(e) becomes Err(From::from(e)), None stays
\* None.
from_residual(r) ==
    IF Is(r, "Err") THEN [r EXCEPT !.w = <<"Err", "From">> \o Tail(@)] ELSE r

\* The closure body as straight-line code with relative jumps.
I(op, n, s) == [op |-> op, n |-> n, s |-> s]

RECURSIVE Compile(_)
RECURSIVE CompileStmts(_, _)
CompileStmts(ss, j) ==
    IF j > Len(ss) THEN <<>>
    ELSE Compile(ss[j]) \o <<I("pop", 0, "")>> \o CompileStmts(ss, j + 1)

Compile(e) ==
    CASE e.k = "lit"   -> <<I("push", e.v, "")>>
      [] e.k = "unit"  -> <<I("unit", 0, "")>>
      [] e.k = "none"  -> <<I("none", 0, "")>>
      [] e.k = "wrap"  -> Compile(e.sub[1]) \o <<I("wrap", 0, e.s)>>
      [] e.k = "var"   -> <<I("load", e.v, "")>>
      [] e.k = "let"   -> Compile(e.sub[1]) \o <<I("store", e.v, ""), I("unit", 0, "")>>
      [] e.k = "take"  -> <<I("take", e.v, "")>>
      [] e.k = "fut"   -> Compile(e.sub[1]) \o <<I("future", e.v, "")>>
      [] e.k = "yield" ->
            (IF Len(e.sub) = 0 THEN <<I("unit", 0, "")>> ELSE Compile(e.sub[1]))
            \o <<I("yield", 0, "")>>
      [] e.k = "return" ->
            (IF Len(e.sub) = 0 THEN <<>> ELSE Compile(e.sub[1])) \o <<I("ret", 0, "")>>
      [] e.k = "panic" -> <<I("panic", 0, "")>>
      [] e.k = "block" -> CompileStmts(e.sub, 1) \o <<I("unit", 0, "")>>
      [] e.k = "for"   ->
            LET body == Compile(e.sub[3]) \o <<I("pop", 0, "")>>
            IN  Compile(e.sub[2]) \o Compile(e.sub[1])
                \o <<I("forinit", e.v, ""), I("fornext", e.v, ""),
                     I("jmp", Len(body) + 2, "")>>
                \o body
                \o <<I("jmp", 0 - (Len(body) + 2), ""), I("unit", 0, "")>>
      [] e.k = "for_iter" ->
            LET body == Compile(e.sub[1]) \o <<I("pop", 0, "")>>
            IN  <<I("iternext", e.v, ""), I("jmp", Len(body) + 2, "")>>
                \o body
                \o <<I("jmp", 0 - (Len(body) + 2), ""), I("unit", 0, "")>>
      [] e.k = "match_branch" ->
            LET on_break == Compile(e.sub[2])
            IN  Compile(e.sub[1]) \o <<I("branch", Len(on_break) + 1, "")>> \o on_break
      [] e.k = "err"   -> <<I("loaderr", 0, "")>>
      [] e.k = "from_residual" -> Compile(e.sub[1]) \o <<I("from_residual", 0, "")>>
      [] e.k = "stream_ctx" -> <<I("loadctx", 0, "")>>
      [] e.k = "await_loop" ->
            Compile(e.sub[2]) \o Compile(e.sub[1])
            \o <<I("poll", 5, ""), I("pending", 0, ""), I("yield", 0, ""),
                 I("setctx", 0, ""), I("jmp", 0 - 4, "")>>
      [] OTHER -> <<I("invalid", 0, e.k)>>

Locals == {1, 2}

\* A closure that has not been resumed yet. iter is the iterator argument
\* the closure has captured: its items are next .. len. Three fields record what the
\* futures of the body see: cur is the context of the resume in progress (0
\* between resumes), polls the answer of every Future::poll so far, and ctxs
\* the pairs <<context polled with, context of the resume in progress>>.
\* A context is an object the caller keeps alive for the whole run.
NewGenerator ==
    [st |-> "unresumed", pc |-> 1, stack |-> <<>>,
     locals |-> [x \in Locals |-> UninitV], err |-> UninitV, stream_ctx |-> 0,
     iter |-> [next |-> 1, len |-> 0],
     cur |-> 0, polls |-> <<>>, ctxs |-> {}]

Top(stack)       == stack[Len(stack)]
Pop(stack)       == SubSeq(stack, 1, Len(stack) - 1)
Pop2(stack)      == SubSeq(stack, 1, Len(stack) - 2)
Push(stack, v)   == Append(stack, v)
SetTop(stack, v) == [stack EXCEPT ![Len(stack)] = v]

Outcome(t, v) == [t |-> t, v |-> v]

\* A body that has returned has dropped its locals and temporaries.
Returned(g) == [NewGenerator EXCEPT !.st = "returned", !.pc = g.pc,
                                    !.stream_ctx = g.stream_ctx, !.cur = g.cur,
                                    !.polls = g.polls, !.ctxs = g.ctxs]

\* Runs the body from g.pc to its next suspension point, its return or a panic.
RECURSIVE Run(_, _)
Run(code, g) ==
    IF g.pc > Len(code)
    THEN [g |-> Returned(g), r |-> Outcome("complete", UnitV)]
    ELSE
    LET i    == code[g.pc]
        s    == g.stack
        next == [g EXCEPT !.pc = @ + 1]
    IN  CASE i.op = "push"  -> Run(code, [next EXCEPT !.stack = Push(s, V(<<>>, i.n))])
          [] i.op = "unit"  -> Run(code, [next EXCEPT !.stack = Push(s, UnitV)])
          [] i.op = "none"  -> Run(code, [next EXCEPT !.stack = Push(s, NoneV)])
          [] i.op = "pending" -> Run(code, [next EXCEPT !.stack = Push(s, PendingV)])
          [] i.op = "wrap"  -> Run(code, [next EXCEPT !.stack = SetTop(s, Wrapped(i.s, Top(s)))])
          [] i.op = "load"  -> Run(code, [next EXCEPT !.stack = Push(s, g.locals[i.n])])
          [] i.op = "store" ->
                Run(code, [next EXCEPT !.stack = Pop(s), !.locals[i.n] = Top(s)])
          [] i.op = "take"  ->
                Run(code, [next EXCEPT !.stack = Push(s, g.locals[i.n]),
                                       !.locals[i.n] = NoneV])
          [] i.op = "future" ->
                Run(code, [next EXCEPT !.stack =
                              SetTop(s, [w |-> <<"Future">>, n |-> Top(s).n, p |-> i.n])])
          [] i.op = "pop"   -> Run(code, [next EXCEPT !.stack = Pop(s)])
          [] i.op = "jmp"   -> Run(code, [g EXCEPT !.pc = @ + i.n])
          [] i.op = "forinit" ->
                Run(code, [next EXCEPT !.stack = Pop(s),
                                       !.locals[i.n] = V(<<>>, Top(s).n - 1)])
          [] i.op = "fornext" ->
                IF g.locals[i.n].n + 1 < Top(s).n
                THEN Run(code, [g EXCEPT !.pc = @ + 2,
                                         !.locals[i.n] = V(<<>>, g.locals[i.n].n + 1)])
                ELSE Run(code, [next EXCEPT !.stack = Pop(s)])
          [] i.op = "iternext" ->
                IF g.iter.next <= g.iter.len
                THEN Run(code, [g EXCEPT !.pc = @ + 2,
                                         !.locals[i.n] = V(<<>>, g.iter.next),
                                         !.iter.next = @ + 1])
                ELSE Run(code, next)
          [] i.op = "branch" ->
                IF IsContinue(Top(s))
                THEN Run(code, [g EXCEPT !.pc = @ + i.n,
                                         !.stack = SetTop(s, Unwrapped(Top(s)))])
                ELSE IF IsBreak(Top(s))
                THEN Run(code, [next EXCEPT !.stack = Pop(s), !.err = Top(s)])
                ELSE [g |-> [g EXCEPT !.st = "invalid"], r |-> Outcome("invalid", UnitV)]
          [] i.op = "loaderr" -> Run(code, [next EXCEPT !.stack = Push(s, g.err)])
          [] i.op = "from_residual" ->
                Run(code, [next EXCEPT !.stack = SetTop(s, from_residual(Top(s)))])
          [] i.op = "loadctx" -> Run(code, [next EXCEPT !.stack = Push(s, CtxV(g.stream_ctx))])
          [] i.op = "setctx"  ->
                Run(code, [next EXCEPT !.stack = Pop(s), !.stream_ctx = Top(s).n])
          [] i.op = "poll" ->
                LET ctx == s[Len(s) - 1].n
                    saw == [g EXCEPT !.ctxs = @ \cup {<<ctx, g.cur>>}]
                IN  IF Top(s).p = 0
                    THEN Run(code, [saw EXCEPT !.pc = @ + i.n,
                                               !.polls = Append(@, "Ready"),
                                               !.stack = Push(Pop2(s), V(<<>>, Top(s).n))])
                    ELSE Run(code, [saw EXCEPT !.pc = @ + 1,
                                               !.polls = Append(@, "Pending"),
                                               !.stack = SetTop(s, [Top(s) EXCEPT !.p = @ - 1])])
          [] i.op = "yield" ->
                [g |-> [next EXCEPT !.st = "suspended", !.stack = Pop(s)],
                 r |-> Outcome("yielded", Top(s))]
          [] i.op = "ret" ->
                [g |-> Returned(g), r |-> Outcome("complete", UnitV)]
          [] i.op = "panic" ->
                [g |-> [g EXCEPT !.st = "panicked"], r |-> Outcome("panic", V(<<"panic!()">>, 0))]
          [] OTHER ->
                [g |-> [g EXCEPT !.st = "invalid"], r |-> Outcome("invalid", UnitV)]

\* Generator::resume: the first resume binds the closure parameter, a later
\* one makes the pending `yield` evaluate to the argument. Resuming a
\* generator that has returned or panicked panics.
Resume(code, g, arg) ==
    LET res ==
          CASE g.st = "unresumed" ->
                  Run(code, [g EXCEPT !.st = "running", !.pc = 1, !.stream_ctx = arg.n,
                                      !.cur = arg.n])
            [] g.st = "suspended" ->
                  Run(code, [g EXCEPT !.st = "running", !.stack = Push(@, arg),
                                      !.cur = arg.n])
            [] OTHER ->
                  [g |-> [g EXCEPT !.st = "panicked"],
                   r |-> Outcome("panic", V(<<"generator resumed after completion">>, 0))]
    IN  [res EXCEPT !.g.cur = 0]

\* ------------------------------------------------------------------ inputs
TyI32    == TypePath(FALSE, <<"i32">>)
TyResult == TypePath(FALSE, <<"Result">>)
TyOption == TypePath(FALSE, <<"Option">>)

Idents  == {"Result", "Option", "i32", "std", "MyResult"}
SegSeqs == UNION {[1..n -> Idents] : n \in 1..MaxSegs}
Types   == {TypePath(q, segs) : q \in BOOLEAN, segs \in SegSeqs}
             \cup {TypeTuple, TypeReference(<<"Result">>)}

\* tests/generators.rs:6: #[size_hint((10, Some(10)))]
HintTen == Pair(10, <<10>>)
AttrPool == {Attribute("doc", NoTokens), Attribute("inline", NoTokens),
             Attribute("size_hint", HintTen), Attribute("size_hint", Pair(3, <<>>))}
AttrSeqs == UNION {[1..n -> AttrPool] : n \in 0..MaxAttrs}

StmtPool ==
    {Yield(Lit(1)), Yield(Lit(2)), Yield(Wrap("Ok", Lit(2))), YieldNone, ReturnNone,
     Return(Lit(9)), Try(Wrap("Err", Lit(7)))}
GenBodies == {Block(ss) : ss \in UNION {[1..n -> StmtPool] : n \in 0..MaxStmts}}

AwaitPool ==
    {Yield(Lit(1)), Try(Wrap("Err", Lit(7))), Yield(Try(Wrap("Ok", Lit(5))))}
        \cup {Yield(Await(Fut(p, 4))) : p \in 0..MaxPend}
AwaitBodies == {Block(ss) : ss \in UNION {[1..n -> AwaitPool] : n \in 1..MaxStmts}}

\* tests/generators.rs:7-11 and tests/gen_blocks.rs:10-14
FooBody == Block(<<ForRange(1, 0, 10, Block(<<Yield(Var(1))>>))>>)
\* tests/generators.rs:47-59 and tests/stream.rs:50-62
ResultBody ==
    Block(<<ForRange(1, 0, 5, Block(<<Yield(Wrap("Ok", Var(1)))>>)),
            Try(Wrap("Err", UnitE)),
            Yield(Wrap("Ok", Lit(10)))>>)
\* tests/generators.rs:74-80 and tests/gen_blocks.rs:56-62
EarlyReturnBody ==
    Block(<<Let(1, Wrap("Some", Lit(3))),
            Let(2, Try(Take(1))), Yield(Var(2)),
            Let(2, Try(Take(1))), Yield(Var(2))>>)
ScenarioBodies == {FooBody, ResultBody, EarlyReturnBody}
\* tests/generators.rs:30-36
BarBody ==
    Block(<<Yield(Lit(42)), ForIter(1, Block(<<Yield(Var(1))>>)), Yield(Lit(42))>>)

Decl(form, attributes, is_async, yields, body) ==
    [form |-> form, attributes |-> attributes, size_hint |-> NoTokens,
     is_async |-> is_async, yields |-> yields, body |-> body, arg |-> 0]

Decls ==
    \* bodies driven in the four rewrite modes, in both surface forms
    {Decl("item", <<>>, a, <<y>>, b) :
        a \in BOOLEAN, y \in {TyI32, TyResult}, b \in GenBodies \cup ScenarioBodies}
    \cup {Decl("block", <<>>, a, <<TyResult>>, b) :
        a \in BOOLEAN, b \in GenBodies \cup ScenarioBodies}
    \* bodies that await
    \cup {Decl("item", <<>>, a, <<y>>, b) :
        a \in BOOLEAN, y \in {TyI32, TyResult}, b \in AwaitBodies}
    \* every shape of declared yield type, and none
    \cup {Decl("item", <<>>, a, y, EarlyReturnBody) :
        a \in BOOLEAN, y \in {<<>>} \cup {<<ty>> : ty \in Types}}
    \* every annotation list
    \cup {Decl(f, at, FALSE, <<TyI32>>, FooBody) :
        f \in {"item", "block"}, at \in AttrSeqs}
    \* a size hint computed from the argument the body consumes; arg is the
    \* number of items of the iterator the function is called with
    \cup {[Decl(f, <<Attribute("size_hint", h)>>, FALSE, <<TyI32>>, BarBody)
              EXCEPT !.arg = n] :
        f \in {"item", "block"}, h \in {IterHint(2), HintTen}, n \in 0..MaxIter}

NoProducer == [gen |-> NewGenerator, code |-> <<>>, size_hint |-> NoTokens]
\* The last pull: the context the caller gave it (0 for next), the arguments
\* of the resume calls it made and the GeneratorState the last of them returned.
NoPull == [ctx |-> 0, args |-> <<>>, raw |-> Outcome("none", UnitV)]

\* No interval iterator was made.
NoMerge == [input |-> <<>>, gen |-> <<>>, hand |-> <<>>, gout |-> <<>>, hout |-> <<>>]

\* A diagnostic emitted through the compiler, and what a parser returned.
Diagnostic(level, message, at) == [level |-> level, message |-> message, at |-> at]
NoParse == [done |-> FALSE, ok |-> FALSE, error |-> "", at |-> 0, diags |-> <<>>,
            args |-> <<>>, item |-> <<>>]

Init ==
    /\ decl \in Decls
    /\ phase = "source"
    /\ lowered = NoLowered
    /\ diags = <<>>
    /\ producer = NoProducer
    /\ out = <<>>
    /\ hints = {}
    /\ panics = {}
    /\ pull = NoPull
    /\ entry = "none"
    /\ input = <<>>
    /\ parsed = NoParse
    /\ merge = NoMerge

\* ----------------------------------------------------------------- actions
\* The gen block of the "block" form as the macro invocation Macrofy leaves:
\* `#[attrs] gen! { body }` or `#[attrs] async_gen! { body }`.
BlockMacro(d) ==
    [N("macro", 0, IF d.is_async THEN "async_gen" ELSE "gen", d.body.sub)
        EXCEPT !.at = d.attributes]

\* iterator_item!: parse_macro_input!(..) then item.build().
iterator_item ==
    /\ phase = "source"
    /\ decl.form = "item"
    /\ lowered' = IteratorItemParse_build(decl)
    /\ diags' = diags \o lowered'.diags
    /\ phase' = "expanded"
    /\ UNCHANGED <<decl, producer, out, hints, panics, pull, pvars>>

\* GenMacroExpander meeting the gen block: the statement is replaced by what
\* convert_macro returns.
GenMacroExpander_visit_stmt_mut ==
    /\ phase = "source"
    /\ decl.form = "block"
    /\ LET m == BlockMacro(decl)
           e == GenMacro_convert_macro(m, m.at)
       IN  /\ Len(e) = 1
           /\ lowered' = e[1]
           /\ diags' = diags \o e[1].diags
    /\ phase' = "expanded"
    /\ UNCHANGED <<decl, producer, out, hints, panics, pull, pvars>>

\* The code of the emitted closure.
ClosureCode(fn) == Compile(ExpandMacros(fn.gen_body))
\* The emitted function is accepted by rustc: nothing of the body was left in
\* a form that has no meaning in a generator closure.
Compiles(code) == \A j \in 1..Len(code) : code[j].op # "invalid"

\* Evaluation of the size-hint expression where the argument iter has the
\* items next .. len left: a literal pair, or the pair computed from
\* iter.size_hint().
EvalSizeHint(tokens, iter) ==
    IF tokens.k = "iter_plus"
    THEN [lo |-> (iter.len - iter.next + 1) + tokens.lo,
          hi |-> <<(iter.len - iter.next + 1) + tokens.hi[1]>>]
    ELSE [lo |-> tokens.lo, hi |-> tokens.hi]

\* The body names the argument: the `move` closure takes it.
RECURSIVE UsesArg(_)
UsesArg(e) == e.k = "for_iter" \/ \E j \in 1..Len(e.sub) : UsesArg(e.sub[j])

\* The statements of the emitted function run in order from statement j. env
\* holds the argument (live until a closure takes it) and the locals
\* size_hint and gen (<<>> until bound); ok is false when a statement reads
\* something that is not there, which rustc rejects.
RECURSIVE ExecFnBody(_, _, _)
ExecFnBody(fn, j, env) ==
    IF j > Len(fn.fn_body) \/ ~env.ok THEN env
    ELSE CASE fn.fn_body[j] = "let size_hint" ->
                IF fn.size_hint.k = "iter_plus" /\ ~env.arg.live
                THEN [env EXCEPT !.ok = FALSE]
                ELSE ExecFnBody(fn, j + 1,
                        [env EXCEPT !.size_hint = <<EvalSizeHint(fn.size_hint, env.arg)>>])
           [] fn.fn_body[j] = "let gen" ->
                LET uses == UsesArg(fn.gen_body)
                IN  ExecFnBody(fn, j + 1,
                        [env EXCEPT
                            !.gen = <<IF uses
                                      THEN [NewGenerator EXCEPT
                                               !.iter = [next |-> env.arg.next,
                                                         len |-> env.arg.len]]
                                      ELSE NewGenerator>>,
                            !.arg.live = @ /\ ~uses])
           [] fn.fn_body[j] = "expansion" ->
                IF env.size_hint = <<>> \/ env.gen = <<>>
                THEN [env EXCEPT !.ok = FALSE]
                ELSE ExecFnBody(fn, j + 1,
                        [env EXCEPT !.ret = <<[gen |-> env.gen[1],
                                               size_hint |-> env.size_hint[1]]>>])

\* Calling the emitted function with an iterator of n items.
Call(fn, n) ==
    ExecFnBody(fn, 1, [ok |-> TRUE, arg |-> [live |-> TRUE, next |-> 1, len |-> n],
                       size_hint |-> <<>>, gen |-> <<>>, ret |-> <<>>])

\* Calling the emitted function: `let size_hint = ..; let gen = ..;` and the
\* producer struct built from the two.
CallFn ==
    /\ phase = "expanded"
    /\ LET code == ClosureCode(lowered)
           env  == Call(lowered, decl.arg)
       IN  /\ Compiles(code)
           /\ env.ok /\ env.ret # <<>>
           /\ producer' = [gen |-> env.ret[1].gen, code |-> code,
                           size_hint |-> env.ret[1].size_hint]
    /\ phase' = "running"
    /\ UNCHANGED <<decl, lowered, diags, out, hints, panics, pull, pvars>>

SomeV(v) == Wrapped("Some", v)

\* Variant: next remembers that the computation completed and reports None
\* again without resuming it.
IteratorItem_next_fused ==
    /\ phase = "running"
    /\ ~lowered.is_async
    /\ LET done == producer.gen.st = "returned"
           res  == IF done THEN [g |-> producer.gen, r |-> Outcome("complete", UnitV)]
                   ELSE Resume(producer.code, producer.gen, UnitV)
       IN  /\ producer' = [producer EXCEPT !.gen = res.g]
           /\ out' = CASE res.r.t = "yielded"  -> Append(out, SomeV(res.r.v))
                       [] res.r.t = "complete" -> Append(out, NoneV)
                       [] OTHER                -> out
           /\ panics' = IF res.r.t = "panic" THEN panics \cup {res.r.v.w[1]} ELSE panics
           /\ pull' = [ctx |-> 0, args |-> IF done THEN <<>> ELSE <<UnitV>>, raw |-> res.r]
    /\ UNCHANGED <<decl, phase, lowered, diags, hints, pvars>>

\* IteratorItem::next
IteratorItem_next ==
    /\ phase = "running"
    /\ ~lowered.is_async
    /\ LET res == Resume(producer.code, producer.gen, UnitV)
       IN  /\ producer' = [producer EXCEPT !.gen = res.g]
           /\ out' = CASE res.r.t = "yielded"  -> Append(out, SomeV(res.r.v))
                       [] res.r.t = "complete" -> Append(out, NoneV)
                       [] OTHER                -> out
           /\ panics' = IF res.r.t = "panic" THEN panics \cup {res.r.v.w[1]} ELSE panics
           /\ pull' = [ctx |-> 0, args |-> <<UnitV>>, raw |-> res.r]
    /\ UNCHANGED <<decl, phase, lowered, diags, hints, pvars>>

Contexts == {1, 2}

\* Variant: poll_next reports a suspension with Poll::Pending as the end of
\* the stream.
AsyncIteratorItem_poll_next_pending_ends ==
    /\ phase = "running"
    /\ lowered.is_async
    /\ \E ctx \in Contexts :
         LET res == Resume(producer.code, producer.gen, CtxV(ctx))
         IN  /\ producer' = [producer EXCEPT !.gen = res.g]
             /\ out' = CASE res.r.t = "yielded" /\ Is(res.r.v, "Ready") ->
                              Append(out, Wrapped("Ready", SomeV(Unwrapped(res.r.v))))
                         [] res.r.t = "yielded" /\ Is(res.r.v, "Pending") ->
                              Append(out, Wrapped("Ready", NoneV))
                         [] res.r.t = "complete" ->
                              Append(out, Wrapped("Ready", NoneV))
                         [] OTHER -> out
             /\ panics' = IF res.r.t = "panic" THEN panics \cup {res.r.v.w[1]} ELSE panics
             /\ pull' = [ctx |-> ctx, args |-> <<CtxV(ctx)>>, raw |-> res.r]
    /\ UNCHANGED <<decl, phase, lowered, diags, hints, pvars>>

\* AsyncIteratorItem::poll_next
AsyncIteratorItem_poll_next ==
    /\ phase = "running"
    /\ lowered.is_async
    /\ \E ctx \in Contexts :
         LET res == Resume(producer.code, producer.gen, CtxV(ctx))
         IN  /\ producer' = [producer EXCEPT !.gen = res.g]
             /\ out' = CASE res.r.t = "yielded" /\ Is(res.r.v, "Ready") ->
                              Append(out, Wrapped("Ready", SomeV(Unwrapped(res.r.v))))
                         [] res.r.t = "yielded" /\ Is(res.r.v, "Pending") ->
                              Append(out, PendingV)
                         [] res.r.t = "complete" ->
                              Append(out, Wrapped("Ready", NoneV))
                         [] OTHER -> out
             /\ panics' = IF res.r.t = "panic" THEN panics \cup {res.r.v.w[1]} ELSE panics
             /\ pull' = [ctx |-> ctx, args |-> <<CtxV(ctx)>>, raw |-> res.r]
    /\ UNCHANGED <<decl, phase, lowered, diags, hints, pvars>>

\* Variant: size_hint() evaluates the size-hint expression again, on the
\* iterator as the computation holds it now.
size_hint_evaluated_again ==
    /\ phase = "running"
    /\ hints' = hints \cup {EvalSizeHint(lowered.size_hint, producer.gen.iter)}
    /\ UNCHANGED <<decl, phase, lowered, diags, producer, out, panics, pull, pvars>>

\* IteratorItem::size_hint / AsyncIteratorItem::size_hint
size_hint ==
    /\ phase = "running"
    /\ hints' = hints \cup {producer.size_hint}
    /\ UNCHANGED <<decl, phase, lowered, diags, producer, out, panics, pull, pvars>>

Next ==
    \/ iterator_item
    \/ GenMacroExpander_visit_stmt_mut
    \/ CallFn
    \/ IteratorItem_next
    \/ AsyncIteratorItem_poll_next
    \/ size_hint

Spec == Init /\ [][Next]_vars

\* ================================================================== parsing
\* A token: its text t, the tokens of a delimited group, the type it spells.
Tok(s)       == [t |-> s, sub |-> <<>>, ty |-> TypeTuple]
Paren(toks)  == [t |-> "(..)", sub |-> toks, ty |-> TypeTuple]
TypeTok(ty)  == [t |-> "Type", sub |-> <<>>, ty |-> ty]

ParseOk(args, ds) == [NoParse EXCEPT !.done = TRUE, !.ok = TRUE, !.args = args, !.diags = ds]
ParseErr(msg, at, ds) ==
    [NoParse EXCEPT !.done = TRUE, !.error = msg, !.at = at, !.diags = ds]

\* Attribute::parse_outer: the index after the outer attributes that start at i.
RECURSIVE AfterAttrs(_, _)
AfterAttrs(toks, i) ==
    IF i <= Len(toks) /\ toks[i].t = "#[a]" THEN AfterAttrs(toks, i + 1) ELSE i

\* Variant: a receiver is refused only when one was taken before.
FnArgError_second_only(kind, has_receiver, args) ==
    IF kind = "self" /\ has_receiver THEN "unexpected second method receiver" ELSE ""

\* The guards of `match &mut arg` in parse_fn_args: the error a parsed
\* argument is refused with, "" when it is taken.
FnArgError(kind, has_receiver, args) ==
    IF kind = "self" /\ has_receiver THEN "unexpected second method receiver"
    ELSE IF kind = "self" /\ args # <<>> THEN "unexpected method receiver"
    ELSE ""

\* The `while !input.is_empty()` loop of parse_fn_args with the cursor at i.
\* A position in the stream stands for the span of the token there.
RECURSIVE parse_fn_args_loop(_, _, _, _, _)
parse_fn_args_loop(toks, i, args, has_receiver, ds) ==
    IF i > Len(toks) THEN ParseOk(args, ds)
    ELSE
    LET a     == AfterAttrs(toks, i)
        attrs == a - i
    IN  IF a <= Len(toks) /\ toks[a].t = "..."
        THEN parse_fn_args_loop(toks, a + 1, args, has_receiver,
                Append(ds, Diagnostic("error",
                    "variadic arguments are not allowed in iterator items", a)))
        ELSE IF a > Len(toks) \/ toks[a].t \notin {"self", "typed"}
        THEN ParseErr("expected a function argument", a, ds)
        ELSE IF FnArgError(toks[a].t, has_receiver, args) # ""
        THEN ParseErr(FnArgError(toks[a].t, has_receiver, args), a, ds)
        ELSE
        LET pushed == Append(args, [kind |-> toks[a].t, attrs |-> attrs])
            recv   == has_receiver \/ toks[a].t = "self"
        IN  IF a + 1 > Len(toks) THEN ParseOk(pushed, ds)
            ELSE IF toks[a + 1].t # "," THEN ParseErr("expected a comma", a + 1, ds)
            ELSE parse_fn_args_loop(toks, a + 2, pushed, recv, ds)

parse_fn_args(toks) == parse_fn_args_loop(toks, 1, <<>>, FALSE, <<>>)

\* The token at i, an end marker past the end of the stream.
At(toks, i) == IF i <= Len(toks) THEN toks[i] ELSE Tok("<eof>")
\* Tokens `Ident::parse` accepts: identifiers that are no keyword.  A path type
\* starts with one.
IsIdent(tok) ==
    \/ tok.t \in {"gen", "generator", "iterator", "iter", "foo", "yields", "returns"}
    \/ tok.t = "Type" /\ tok.ty.k = "path"
\* Type::parse on one token.
IsType(tok)  == tok.t = "Type" \/ IsIdent(tok)
TypeOf(tok)  == IF tok.t = "Type" THEN tok.ty ELSE TypePath(FALSE, <<tok.t>>)

GenKeywords  == {"gen", "generator", "iterator"}
ExpectedKeyword ==
    "expected one of the following keywords to identify an iterator item: gen, generator, iterator"
ExpectedYields ==
    "expected one of yields, yield, ->, => to indicate the value being yielded by the iterator item"
LooksRegular == "this looks like regular function, don't wrap it in iterator_item macro"

\* parse_fn from the token after `async`: `fn`, `fn*`, or one of GenKeywords
\* with an optional `fn`.
ParseIntro(toks, i) ==
    IF At(toks, i).t = "fn"
    THEN IF At(toks, i + 1).t = "*"
         THEN [error |-> "", next |-> i + 2, regular_fn |-> FALSE]
         ELSE [error |-> "", next |-> i + 1, regular_fn |-> TRUE]
    ELSE IF ~IsIdent(At(toks, i)) \/ At(toks, i).t \notin GenKeywords
    THEN [error |-> ExpectedKeyword, next |-> i, regular_fn |-> TRUE]
    ELSE [error |-> "", next |-> IF At(toks, i + 1).t = "fn" THEN i + 2 ELSE i + 1,
          regular_fn |-> FALSE]

\* Variant: the diagnostic is a warning given to the `fn*` form.
ArrowDiagnostics_warn_prefixed(toks, i, regular_fn, name) ==
    IF At(toks, i).t = "->" /\ name >= 2 /\ At(toks, name - 1).t = "*"
    THEN <<Diagnostic("warning", LooksRegular, name)>> ELSE <<>>

\* What parse_fn emits when `->` follows the argument list: an error at the
\* name when the item was introduced by a plain `fn`.
ArrowDiagnostics(toks, i, regular_fn, name) ==
    IF At(toks, i).t = "->" /\ regular_fn
    THEN <<Diagnostic("error", LooksRegular, name)>> ELSE <<>>

\* The yield type clause at i: the type parsed (none without a clause), the
\* index after it, and the error it is refused with.
ParseYields(toks, i) ==
    IF At(toks, i).t \in {"->", "yield", "=>"}
    THEN IF IsType(At(toks, i + 1))
         THEN [error |-> "", at |-> 0, next |-> i + 2, yields |-> <<TypeOf(At(toks, i + 1))>>]
         ELSE [error |-> "expected type", at |-> i + 1, next |-> i, yields |-> <<>>]
    ELSE IF IsIdent(At(toks, i))
    THEN IF At(toks, i).t # "yields"
         THEN [error |-> ExpectedYields, at |-> i, next |-> i, yields |-> <<>>]
         ELSE IF IsType(At(toks, i + 1))
         THEN [error |-> "", at |-> 0, next |-> i + 2, yields |-> <<TypeOf(At(toks, i + 1))>>]
         ELSE [error |-> "expected type", at |-> i + 1, next |-> i, yields |-> <<>>]
    ELSE [error |-> "", at |-> 0, next |-> i, yields |-> <<>>]

parse_fn(toks) ==
    LET a     == AfterAttrs(toks, 1)
        v     == IF At(toks, a).t = "pub" THEN a + 1 ELSE a
        f     == IF At(toks, v).t = "async" THEN v + 1 ELSE v
        intro == ParseIntro(toks, f)
        name  == intro.next
        group == name + 1
    IN  IF intro.error # "" THEN ParseErr(intro.error, f, <<>>)
        ELSE IF ~IsIdent(At(toks, name)) THEN ParseErr("expected identifier", name, <<>>)
        ELSE IF At(toks, group).t # "(..)" THEN ParseErr("expected parentheses", group, <<>>)
        ELSE
        LET args == parse_fn_args(At(toks, group).sub)
            ds   == args.diags \o ArrowDiagnostics(toks, group + 1, intro.regular_fn, name)
            y    == ParseYields(toks, group + 1)
        IN  IF ~args.ok THEN ParseErr(args.error, group, args.diags)
            ELSE IF y.error # "" THEN ParseErr(y.error, y.at, ds)
            ELSE IF At(toks, y.next).t # "{..}"
            THEN ParseErr("expected curly braces", y.next, ds)
            ELSE [ParseOk(args.args, ds) EXCEPT
                    !.item = <<[attributes |-> a - 1,
                                size_hint  |-> NoTokens,
                                visibility |-> v > a,
                                is_async   |-> f > v,
                                name       |-> name,
                                args       |-> args.args,
                                yields     |-> y.yields,
                                return_ty  |-> <<>>,
                                body       |-> y.next]>>]

\* ------------------------------------------------------------------ macrofy
\* A TokenTree is a Tok (an identifier or a punctuation) or a Paren (a
\* Group: its delimiter and its stream).  MacrofyState is <<>> for
\* Passthrough and <<a>> for SawAsync(a).
IsGroup(tree) == tree.t = "(..)"
bang == Tok("!")

RECURSIVE macrofy(_)
RECURSIVE Macrofy_collect(_, _, _)

\* MacrofyState::step: the new state and the trees pushed on the queue.
MacrofyState_step(self, tree) ==
    CASE self = <<>> /\ IsGroup(tree) ->
            [state |-> <<>>, out |-> <<Paren(macrofy(tree.sub))>>]
      [] self = <<>> /\ tree.t = "gen" ->
            [state |-> <<>>, out |-> <<tree, bang>>]
      [] self # <<>> /\ tree.t = "gen" ->
            [state |-> <<>>, out |-> <<Tok("async_gen"), bang>>]
      [] self # <<>> /\ tree.t # "gen" ->
            [state |-> <<>>, out |-> <<self[1], tree>>]
      [] self = <<>> /\ tree.t = "async" ->
            [state |-> <<tree>>, out |-> <<>>]
      [] OTHER ->
            [state |-> <<>>, out |-> <<tree>>]

\* TokenStream::from_iter(Macrofy { .. }): Macrofy::next hands out the queue
\* and steps on the next tree of inner; it ends when inner does, whatever the
\* state.
Macrofy_collect(inner, j, state) ==
    IF j > Len(inner) THEN <<>>
    ELSE LET s == MacrofyState_step(state, inner[j])
         IN  s.out \o Macrofy_collect(inner, j + 1, s.state)

macrofy(stream) == Macrofy_collect(stream, 1, <<>>)

\* Token streams of at most MaxTrees trees: gen, async, `!`, another
\* identifier, and groups that hold them, one in another.
FlatTrees == {Tok("gen"), Tok("async"), Tok("!"), Tok("foo")}
Groups ==
    {Paren(<<Tok("gen")>>), Paren(<<Tok("async")>>), Paren(<<Tok("async"), Tok("gen")>>),
     Paren(<<Paren(<<Tok("gen")>>)>>), Paren(<<Tok("async"), Paren(<<Tok("gen")>>)>>)}
TokenStreams == UNION {[1..n -> FlatTrees \cup Groups] : n \in 0..MaxTrees}

\* Bodies for the rewriter alone: the constructs it rewrites, closures and
\* nested function items, one inside another up to MaxDepth.
RECURSIVE ExprsOfDepth(_)
ExprsOfDepth(n) ==
    IF n = 0 THEN {Lit(1), YieldNone, ReturnNone}
    ELSE LET S == ExprsOfDepth(n - 1)
         IN  S \cup {Try(e) : e \in S} \cup {Await(e) : e \in S}
               \cup {Yield(e) : e \in S} \cup {Return(e) : e \in S}
               \cup {Closure(e) : e \in S} \cup {FnItem(e) : e \in S}
VisitorInputs ==
    {[visitor |-> vi, is_async |-> a, is_try_yield |-> ty, body |-> Block(<<e>>)] :
        vi \in {"Visitor", "BodyVisitor"}, a \in BOOLEAN, ty \in BOOLEAN,
        e \in ExprsOfDepth(MaxDepth)}

\* ------------------------------------------------------- the parsers' inputs
\* Parameter lists: every stream of at most MaxToks tokens of a receiver, a
\* typed parameter, `...`, a comma and an outer attribute.
ArgToks  == {Tok("self"), Tok("typed"), Tok("..."), Tok(","), Tok("#[a]")}
ArgLists == UNION {[1..n -> ArgToks] : n \in 0..MaxToks}

\* Items: [attributes] [pub] [async], an introducer, a name, a parameter
\* list, a yield type clause and a body, each present, absent or misspelt.
ItemPrefixes == {<<>>, <<Tok("async")>>, <<Tok("#[a]"), Tok("pub"), Tok("async")>>}
ItemIntros ==
    {<<Tok("fn")>>, <<Tok("fn"), Tok("*")>>, <<Tok("gen"), Tok("fn")>>, <<Tok("gen")>>,
     <<Tok("generator")>>, <<Tok("iterator"), Tok("fn")>>, <<Tok("iter"), Tok("fn")>>, <<>>}
ItemArgs ==
    {<<>>, <<Tok("self"), Tok(","), Tok("typed")>>, <<Tok("typed"), Tok(","), Tok("self")>>,
     <<Tok("typed"), Tok(","), Tok("...")>>}
ItemClauses ==
    {<<>>, <<Tok("->")>>, <<Tok("=>")>>, <<Tok("yield")>>, <<Tok("yields")>>, <<Tok("returns")>>}
ItemTypes  == {<<>>, <<TypeTok(TyI32)>>, <<TypeTok(TypeTuple)>>}
ItemBodies == {<<>>, <<Tok("{..}")>>}
Items ==
    {p \o i \o <<Tok("foo"), Paren(a)>> \o c \o ty \o b :
        p \in ItemPrefixes, i \in ItemIntros, a \in ItemArgs, c \in ItemClauses,
        ty \in ItemTypes, b \in ItemBodies}

\* Function bodies with generator blocks: in statement position, in
\* expression position (the initialiser of a `let`), inside nested blocks and
\* inside the body of another generator block; some with tokens that are not
\* statements, some with a size hint; and statements that are no generator
\* block.  No body holds a `return <expr>`, so the rewrite emits no diagnostic.
GenBlockBodies ==
    {<<Yield(Lit(1))>>,
     <<Yield(Await(Fut(0, 5)))>>,
     <<ItemMacro("gen", <<>>, 0, <<Yield(Lit(2))>>), Yield(Lit(1))>>,
     <<Let(1, ExprMacro("async_gen", <<>>, 0, <<Yield(Lit(2))>>))>>}
GenBlocks ==
    {ItemMacro(n, <<>>, 0, b) : n \in {"gen", "async_gen"}, b \in GenBlockBodies}
    \cup {ItemMacro("gen", <<Attribute("size_hint", HintTen)>>, 0, <<Yield(Lit(1))>>),
          ItemMacro("gen", <<>>, 1, <<>>),
          ItemMacro("async_gen", <<>>, 1, <<>>)}
FnStmts ==
    GenBlocks
    \cup {Let(1, ExprMacro("gen", <<>>, 0, <<Yield(Lit(1))>>)),
          Let(1, ExprMacro("async_gen", <<>>, 1, <<>>)),
          Block(<<Block(<<ItemMacro("async_gen", <<>>, 0, <<Yield(Lit(1))>>)>>)>>),
          Block(<<Let(1, ExprMacro("gen", <<>>, 0, <<Yield(Lit(1))>>))>>),
          ItemMacro("println", <<>>, 0, <<>>),
          Lit(7)}
FnBodies == {Block(ss) : ss \in UNION {[1..n -> FnStmts] : n \in 1..MaxStmts}}

\* --------------------------------------------------------------- the parsers
\* A stream handed to a parser; nothing is declared, expanded or run.
SyntaxInit ==
    /\ \/ entry = "parse_fn_args" /\ input \in ArgLists
       \/ entry = "parse_fn" /\ input \in Items
       \/ entry = "expander" /\ input \in FnBodies
       \/ entry = "macrofy" /\ input \in TokenStreams
       \/ entry = "visitor" /\ input \in VisitorInputs
    /\ parsed = NoParse
    /\ merge = NoMerge
    /\ decl = Decl("item", <<>>, FALSE, <<TyI32>>, Block(<<>>))
    /\ phase = "source"
    /\ lowered = NoLowered
    /\ diags = <<>>
    /\ producer = NoProducer
    /\ out = <<>>
    /\ hints = {}
    /\ panics = {}
    /\ pull = NoPull

\* parse_fn_args(&fn_args) on the tokens of a parameter list.
Call_parse_fn_args ==
    /\ entry = "parse_fn_args"
    /\ ~parsed.done
    /\ parsed' = parse_fn_args(input)
    /\ UNCHANGED <<decl, phase, lowered, diags, producer, out, hints, panics, pull,
                   entry, input, merge>>

\* <IteratorItemParse as Parse>::parse
IteratorItemParse_parse ==
    /\ entry = "parse_fn"
    /\ ~parsed.done
    /\ parsed' = parse_fn(input)
    /\ UNCHANGED <<decl, phase, lowered, diags, producer, out, hints, panics, pull,
                   entry, input, merge>>

\* GenMacroExpander.visit_block_mut(&mut body) on the body of a function.
GenMacroExpander_visit_block_mut ==
    /\ entry = "expander"
    /\ ~parsed.done
    /\ parsed' = [ParseOk(<<>>, <<>>) EXCEPT !.item = <<GenMacroExpander_visit(input)>>]
    /\ UNCHANGED <<decl, phase, lowered, diags, producer, out, hints, panics, pull,
                   entry, input, merge>>

\* macrofy(input) on a token stream.
Call_macrofy ==
    /\ entry = "macrofy"
    /\ ~parsed.done
    /\ parsed' = [ParseOk(<<>>, <<>>) EXCEPT !.item = <<macrofy(input)>>]
    /\ UNCHANGED <<decl, phase, lowered, diags, producer, out, hints, panics, pull,
                   entry, input, merge>>

\* visitor.visit_block_mut(&mut body) of build, with either rewriter.
visit_block_mut ==
    /\ entry = "visitor"
    /\ ~parsed.done
    /\ LET res == IF input.visitor = "Visitor"
                  THEN Visitor_visit_expr_mut(input.is_async, input.is_try_yield,
                                              input.body, <<>>)
                  ELSE BodyVisitor_visit_expr_mut(input.is_async, input.is_try_yield,
                                                  input.body, <<>>)
       IN  parsed' = [ParseOk(<<>>, res.d) EXCEPT !.item = <<res.e>>]
    /\ UNCHANGED <<decl, phase, lowered, diags, producer, out, hints, panics, pull,
                   entry, input, merge>>

SyntaxNext ==
    \/ visit_block_mut
    \/ Call_macrofy
    \/ Call_parse_fn_args
    \/ IteratorItemParse_parse
    \/ GenMacroExpander_visit_block_mut

SyntaxSpec == SyntaxInit /\ [][SyntaxNext]_vars

\* ====================================================== merging intervals
\* tests/merge_overlapping_intervals.rs: struct Interval and its methods.
Interval(start, end) == [start |-> start, end |-> end]
overlaps(self, other) ==
    LET a == IF self.start < other.start THEN self ELSE other
        b == IF self.start < other.start THEN other ELSE self
    IN  a.end >= b.start
Min(x, y) == IF x <= y THEN x ELSE y
Max(x, y) == IF x >= y THEN x ELSE y
Interval_merge(self, other) ==
    Interval(Min(self.start, other.start), Max(self.end, other.end))
\* #[derive(PartialOrd, Ord)]: by start, then by end.
IntervalLe(a, b) == a.start < b.start \/ (a.start = b.start /\ a.end <= b.end)

\* The generator of merge_overlapping_intervals between two pulls: the point
\* it is suspended at and the locals it holds there.
MergeGen(pc, prev, i, rest) == [pc |-> pc, prev |-> prev, i |-> i, input |-> rest]

\* `for i in input { .. }` from its head with the locals prev and input, up
\* to the next suspension: what the resume returns and the generator left.
RECURSIVE merge_loop(_, _)
merge_loop(prev, rest) ==
    IF rest = <<>>
    THEN [r |-> <<prev>>, g |-> MergeGen("last_yield", prev, prev, rest)]
    ELSE LET i == Head(rest)
         IN  IF overlaps(prev, i)
             THEN merge_loop(Interval_merge(prev, i), Tail(rest))
             ELSE [r |-> <<prev>>, g |-> MergeGen("loop_yield", prev, i, Tail(rest))]

\* Variant: the resumption after `yield prev` in the loop goes on with the
\* prev it yielded.
merge_after_loop_yield_keeps_prev(g) == merge_loop(g.prev, g.input)

\* The resumption after `yield prev` in the loop: `prev = i;` and the next
\* iteration.
merge_after_loop_yield(g) == merge_loop(g.i, g.input)

\* One resume of the generator; <<v>> is Yielded(v), <<>> is Complete.
merge_overlapping_intervals_resume(g) ==
    CASE g.pc = "start" ->
            IF g.input = <<>>
            THEN [r |-> <<>>, g |-> [g EXCEPT !.pc = "done"]]
            ELSE merge_loop(Head(g.input), Tail(g.input))
      [] g.pc = "loop_yield" -> merge_after_loop_yield(g)
      [] g.pc = "last_yield" -> [r |-> <<>>, g |-> [g EXCEPT !.pc = "done"]]

\* handmade_merge_overlapping_intervals: the state machine it returns.
handmade_merge_overlapping_intervals(in) ==
    IF in = <<>> THEN [input |-> <<>>, prev |-> <<>>]
    ELSE [input |-> Tail(in), prev |-> <<Head(in)>>]

\* The `while let Some(i) = self.input.next()` loop of
\* MergeOverlappingIntervals::next with the local prev.
RECURSIVE handmade_loop(_, _)
handmade_loop(self, prev) ==
    IF self.input = <<>>
    THEN [r |-> <<prev>>, self |-> [self EXCEPT !.prev = <<>>]]
    ELSE LET i  == Head(self.input)
             s1 == [self EXCEPT !.input = Tail(@)]
         IN  IF overlaps(prev, i)
             THEN handmade_loop([s1 EXCEPT !.prev = <<Interval_merge(prev, i)>>],
                                Interval_merge(prev, i))
             ELSE [r |-> <<prev>>, self |-> [s1 EXCEPT !.prev = <<i>>]]

\* MergeOverlappingIntervals::next; <<v>> is Some(v), <<>> is None.
MergeOverlappingIntervals_next(self) ==
    IF self.prev = <<>> THEN [r |-> <<>>, self |-> self]
    ELSE handmade_loop(self, self.prev[1])

\* Sorted inputs of at most MaxLen intervals with ends in 0..MaxEnd.
Intervals == {Interval(s, e) : s \in 0..MaxEnd, e \in 0..MaxEnd}
SortedInputs ==
    {in \in UNION {[1..n -> Intervals] : n \in 0..MaxLen} :
        \A j \in 1..(Len(in) - 1) : IntervalLe(in[j], in[j + 1])}

\* Both iterators made from the same input.
MergeInit ==
    /\ \E in \in SortedInputs :
          merge = [input |-> in,
                   gen   |-> MergeGen("start", Interval(0, 0), Interval(0, 0), in),
                   hand  |-> handmade_merge_overlapping_intervals(in),
                   gout  |-> <<>>,
                   hout  |-> <<>>]
    /\ entry = "none"
    /\ input = <<>>
    /\ parsed = NoParse
    /\ decl = Decl("item", <<>>, FALSE, <<TyI32>>, Block(<<>>))
    /\ phase = "source"
    /\ lowered = NoLowered
    /\ diags = <<>>
    /\ producer = NoProducer
    /\ out = <<>>
    /\ hints = {}
    /\ panics = {}
    /\ pull = NoPull

\* next() on merge_overlapping_intervals(input): IteratorItem::next gives
\* Some(v) for Yielded(v) and None for Complete.  A driver stops at None.
merge_overlapping_intervals_next ==
    /\ merge.gen.pc # "done"
    /\ LET res == merge_overlapping_intervals_resume(merge.gen)
       IN  merge' = [merge EXCEPT !.gen = res.g, !.gout = Append(@, res.r)]
    /\ UNCHANGED <<decl, phase, lowered, diags, producer, out, hints, panics, pull,
                   entry, input, parsed>>

\* next() on handmade_merge_overlapping_intervals(input), up to its first None.
handmade_next ==
    /\ \A j \in 1..Len(merge.hout) : merge.hout[j] # <<>>
    /\ LET res == MergeOverlappingIntervals_next(merge.hand)
       IN  merge' = [merge EXCEPT !.hand = res.self, !.hout = Append(@, res.r)]
    /\ UNCHANGED <<decl, phase, lowered, diags, producer, out, hints, panics, pull,
                   entry, input, parsed>>

MergeNext ==
    \/ merge_overlapping_intervals_next
    \/ handmade_next

MergeSpec == MergeInit /\ [][MergeNext]_vars

\* ================================================================== claims
\* What the source text of a body says, read without the rewriter: the
\* statements of the body, the value a literal expression denotes, and the
\* results a driver is to see.
Stmts == decl.body.sub

RECURSIVE IsPure(_)
IsPure(e) ==
    \/ e.k \in {"lit", "unit", "none"}
    \/ e.k = "wrap" /\ IsPure(e.sub[1])

RECURSIVE PureValue(_)
PureValue(e) ==
    CASE e.k = "lit"  -> [w |-> <<>>, n |-> e.v, p |-> 0]
      [] e.k = "unit" -> [w |-> <<"()">>, n |-> 0, p |-> 0]
      [] e.k = "none" -> [w |-> <<"None">>, n |-> 0, p |-> 0]
      [] e.k = "wrap" -> LET v == PureValue(e.sub[1]) IN [v EXCEPT !.w = <<e.s>> \o @]

IsPlainYield(s) == s.k = "yield" /\ (Len(s.sub) = 0 \/ IsPure(s.sub[1]))
IsTryStmt(s)    == s.k = "try" /\ IsPure(s.sub[1])
IsYieldTry(s)   == s.k = "yield" /\ Len(s.sub) = 1 /\ s.sub[1].k = "try"
                   /\ IsPure(s.sub[1].sub[1])
IsReturnStmt(s) == s.k = "return" /\ (Len(s.sub) = 0 \/ IsPure(s.sub[1]))
TryOperand(s)   == IF s.k = "try" THEN s.sub[1] ELSE s.sub[1].sub[1]
Fails(e)        == e.k = "none" \/ (e.k = "wrap" /\ e.s = "Err")

StraightLine == \A j \in 1..Len(Stmts) : IsPlainYield(Stmts[j])
TryShaped ==
    \A j \in 1..Len(Stmts) :
        IsPlainYield(Stmts[j]) \/ IsTryStmt(Stmts[j]) \/ IsYieldTry(Stmts[j])
ReturnShaped ==
    \A j \in 1..Len(Stmts) : IsPlainYield(Stmts[j]) \/ IsReturnStmt(Stmts[j])

FailsAt(j)   == (IsTryStmt(Stmts[j]) \/ IsYieldTry(Stmts[j])) /\ Fails(TryOperand(Stmts[j]))
FirstOf(S)   == IF S = {} THEN Len(Stmts) + 1 ELSE CHOOSE j \in S : \A k \in S : j <= k
FirstFailure == FirstOf({j \in 1..Len(Stmts) : FailsAt(j)})
FirstReturn  == FirstOf({j \in 1..Len(Stmts) : Stmts[j].k = "return"})

\* A result of next / poll_next carrying the element v, and the one that
\* reports exhaustion.
Element(v) ==
    IF decl.is_async THEN [v EXCEPT !.w = <<"Ready", "Some">> \o @]
    ELSE [v EXCEPT !.w = <<"Some">> \o @]
Exhausted ==
    IF decl.is_async THEN [w |-> <<"Ready", "None">>, n |-> 0, p |-> 0]
    ELSE [w |-> <<"None">>, n |-> 0, p |-> 0]

\* The value a statement hands to the driver when it runs and succeeds.
StmtElements(s) ==
    CASE IsPlainYield(s) ->
            <<Element(IF Len(s.sub) = 0 THEN [w |-> <<"()">>, n |-> 0, p |-> 0]
                      ELSE PureValue(s.sub[1]))>>
      [] IsYieldTry(s) ->
            LET v == PureValue(TryOperand(s)) IN <<Element([v EXCEPT !.w = Tail(@)])>>
      [] OTHER -> <<>>

\* The elements of statements 1 .. k-1.
RECURSIVE ElementsBefore(_, _)
ElementsBefore(j, k) ==
    IF j >= k THEN <<>> ELSE StmtElements(Stmts[j]) \o ElementsBefore(j + 1, k)

\* The failure of `e?` as the element a try-yield generator ends with:
\* Err(x) converted with From, None as it is.
ConvertedFailure(e) ==
    LET v == PureValue(e)
    IN  IF e.k = "none" THEN v ELSE [v EXCEPT !.w = <<"Err", "From">> \o Tail(@)]

IsPrefix(s, t) == Len(s) <= Len(t) /\ \A j \in 1..Len(s) : s[j] = t[j]

\* Every pull so far returned the next result of `expected`, and nothing
\* panicked before the last of them was returned.
DrivenAs(expected) ==
    /\ IsPrefix(out, expected)
    /\ producer.gen.st # "invalid"
    /\ panics # {} => out = expected

IntV(n) == [w |-> <<>>, n |-> n, p |-> 0]
SizeHintAttrs == SelectSeq(decl.attributes, LAMBDA a : a.path = "size_hint")

\* C1: a synchronous generator whose body is N plain `yield` statements in
\* straight-line code returns exactly those N values, in source order, from
\* the first N calls of next, and None from call N + 1.
C1_StraightLineYields ==
    (phase = "running" /\ ~decl.is_async /\ StraightLine)
        => DrivenAs(ElementsBefore(1, Len(Stmts) + 1) \o <<Exhausted>>)

C1_Witness ==
    /\ phase = "running" /\ ~decl.is_async /\ decl.form = "item" /\ StraightLine
    /\ decl.yields = <<[k |-> "path", qself |-> FALSE, segments |-> <<"i32">>]>>
    /\ Len(Stmts) = 2
    /\ out = <<Element(IntV(1)), Element(IntV(2)), Exhausted>>

\* C2: an item with an empty body expands, and the first pull on what it
\* produces reports exhaustion; the tail `return; yield panic!()` is appended
\* to every body and its panic!() is evaluated for none.
C2_EmptyBody ==
    /\ (phase # "source" /\ Len(Stmts) = 0)
          => lowered.ok /\ diags = <<>> /\ Compiles(ClosureCode(lowered))
    /\ (phase = "running" /\ Len(Stmts) = 0) => DrivenAs(<<Exhausted>>)
    /\ phase # "source"
          => /\ Len(lowered.gen_body.sub) = 2
             /\ lowered.gen_body.sub[2] = Block(<<ReturnNone, Yield(PanicE)>>)
    /\ "panic!()" \notin panics

C2_Witness ==
    /\ phase = "running" /\ decl.form = "item" /\ Len(Stmts) = 0
    /\ out = <<Exhausted>>

\* C3: with no size_hint annotation size_hint() reports (0, None); with one
\* size_hint annotation holding the literal pair (a, b) it reports (a, b).
C3_SizeHint ==
    phase = "running" =>
        /\ Len(SizeHintAttrs) = 0 => hints \subseteq {[lo |-> 0, hi |-> <<>>]}
        /\ (Len(SizeHintAttrs) = 1 /\ SizeHintAttrs[1].tokens.k = "pair") =>
              hints \subseteq {[lo |-> SizeHintAttrs[1].tokens.lo,
                                hi |-> SizeHintAttrs[1].tokens.hi]}

C3_Witness ==
    /\ phase = "running" /\ decl.form = "item"
    /\ Len(SizeHintAttrs) = 1
    /\ hints = {[lo |-> 10, hi |-> <<10>>]}

\* C4: `for n in 0..10 { yield n; }` under #[size_hint((10, Some(10)))]
\* reports that hint, yields 0, 1, .., 9 in order and is then exhausted, as a
\* fn* item and as a gen block.
FooExpected == [j \in 1..10 |-> Element(IntV(j - 1))] \o <<Exhausted>>

C4_FooScenario ==
    (/\ phase = "running" /\ ~decl.is_async /\ decl.body = FooBody
     /\ Len(SizeHintAttrs) = 1 /\ SizeHintAttrs[1].tokens = Pair(10, <<10>>))
        => /\ hints \subseteq {[lo |-> 10, hi |-> <<10>>]}
           /\ DrivenAs(FooExpected)

C4_Witness ==
    /\ phase = "running" /\ decl.form = "block" /\ decl.body = FooBody
    /\ Len(SizeHintAttrs) = 1
    /\ hints = {[lo |-> 10, hi |-> <<10>>]}
    /\ out = FooExpected

\* C5: in try-yield mode, synchronous or asynchronous, a `?` that succeeds
\* gives the wrapped value and the body goes on; one that fails makes the
\* converted failure the last element (under Poll::Ready when asynchronous),
\* the next pull reports exhaustion and nothing after the `?` runs.
ResultExpected ==
    [j \in 1..5 |-> Element([w |-> <<"Ok">>, n |-> j - 1, p |-> 0])]
        \o <<Element([w |-> <<"Err", "From", "()">>, n |-> 0, p |-> 0]), Exhausted>>

C5_TryYield ==
    /\ (phase = "running" /\ lowered.is_try_yield /\ TryShaped)
          => DrivenAs(ElementsBefore(1, FirstFailure)
                      \o (IF FirstFailure <= Len(Stmts)
                          THEN <<Element(ConvertedFailure(TryOperand(Stmts[FirstFailure])))>>
                          ELSE <<>>)
                      \o <<Exhausted>>)
    /\ (phase = "running" /\ lowered.is_try_yield /\ decl.body = ResultBody)
          => DrivenAs(ResultExpected)

C5_Witness ==
    /\ phase = "running" /\ lowered.is_try_yield /\ decl.is_async
    /\ decl.body = ResultBody
    /\ out = ResultExpected

C7_OneElementThenExhausted ==
    (/\ phase = "running" /\ ~decl.is_async /\ lowered.is_try_yield
     /\ decl.body = EarlyReturnBody)
        => DrivenAs(<<Element(IntV(3)), Exhausted>>)

\* C7 as amended: that generator produces two elements, the value held and
\* then the converted failure (None) of the second `?`, and is then exhausted.
C7_ValueThenFailureThenExhausted ==
    (/\ phase = "running" /\ ~decl.is_async /\ lowered.is_try_yield
     /\ decl.body = EarlyReturnBody)
        => DrivenAs(<<Element(IntV(3)), Element([w |-> <<"None">>, n |-> 0, p |-> 0]),
                      Exhausted>>)

C7_Witness ==
    /\ phase = "running" /\ ~decl.is_async /\ lowered.is_try_yield
    /\ decl.body = EarlyReturnBody
    /\ Len(out) = 3 /\ out[3] = Exhausted

\* C8 as stated: is_try_yield is true exactly when the declared yield type is
\* a path of one segment named Result or Option.
SingleTrySegment ==
    /\ Len(decl.yields) = 1
    /\ decl.yields[1].k = "path"
    /\ Len(decl.yields[1].segments) = 1
    /\ decl.yields[1].segments[1] \in {"Result", "Option"}

C8_SingleSegmentPath ==
    (phase # "source" /\ decl.form = "item") => (lowered.is_try_yield <=> SingleTrySegment)

\* C8 as amended: ... a path without a self-qualifier (`<T>::`) of one segment
\* named Result or Option.
C8_UnqualifiedSingleSegmentPath ==
    (phase # "source" /\ decl.form = "item")
        => (lowered.is_try_yield <=> (SingleTrySegment /\ ~decl.yields[1].qself))

C8_Witness ==
    /\ phase # "source" /\ decl.form = "item"
    /\ lowered.is_try_yield
    /\ decl.yields = <<[k |-> "path", qself |-> FALSE, segments |-> <<"Option">>]>>

\* C9: each `return <expr>` of a body gets one error diagnostic at the
\* expression and becomes a bare `return`, a bare `return` stays; the expansion
\* succeeds, and the sequence ends at that return without the returned value.
RECURSIVE ReturnValueSpans(_, _)
RECURSIVE ReturnValueSpansOfChildren(_, _, _)
ReturnValueSpansOfChildren(e, span, j) ==
    IF j > Len(e.sub) THEN <<>>
    ELSE ReturnValueSpans(e.sub[j], span \o <<j>>)
         \o ReturnValueSpansOfChildren(e, span, j + 1)
ReturnValueSpans(e, span) ==
    ReturnValueSpansOfChildren(e, span, 1)
    \o (IF e.k = "return" /\ Len(e.sub) = 1 THEN <<span \o <<1>>>> ELSE <<>>)

RECURSIVE CountNodes(_, _, _)
RECURSIVE CountNodesOfChildren(_, _, _, _)
CountNodesOfChildren(e, k, s, j) ==
    IF j > Len(e.sub) THEN 0
    ELSE CountNodes(e.sub[j], k, s) + CountNodesOfChildren(e, k, s, j + 1)
\* The number of nodes of kind k (and, for a macro call, of name s) in e.
CountNodes(e, k, s) ==
    (IF e.k = k /\ e.s = s THEN 1 ELSE 0) + CountNodesOfChildren(e, k, s, 1)

RECURSIVE HasReturnValue(_)
HasReturnValue(e) ==
    \/ e.k = "return" /\ Len(e.sub) > 0
    \/ \E j \in 1..Len(e.sub) : HasReturnValue(e.sub[j])

C9_ReturnValue ==
    /\ phase # "source" =>
          /\ [j \in 1..Len(diags) |-> diags[j].span] = ReturnValueSpans(decl.body, <<>>)
          /\ \A j \in 1..Len(diags) : diags[j].level = "error"
          /\ ~HasReturnValue(lowered.gen_body)
          /\ CountNodes(lowered.gen_body.sub[1], "return", "")
                = CountNodes(decl.body, "return", "")
          /\ ReturnShaped => lowered.ok /\ Compiles(ClosureCode(lowered))
    /\ (phase = "running" /\ ReturnShaped)
          => DrivenAs(ElementsBefore(1, FirstReturn) \o <<Exhausted>>)

C9_Witness ==
    /\ phase = "running" /\ decl.form = "item"
    /\ Len(Stmts) = 2 /\ IsPlainYield(Stmts[1])
    /\ Stmts[2].k = "return" /\ Len(Stmts[2].sub) = 1
    /\ Len(diags) = 1 /\ diags[1].span = <<2, 1>>
    /\ Len(out) = 2 /\ out[2] = Exhausted

\* C10: in asynchronous mode every `yield e` becomes a suspension with
\* Poll::Ready(e) and every bare `yield` one with Poll::Ready(()), so each
\* yield that runs makes one poll_next return Ready(Some(value)), in order, and
\* the end of the body makes poll_next return Ready(None).
C10_AsyncYield ==
    /\ (phase # "source" /\ decl.is_async) =>
          /\ CountNodes(lowered.gen_body.sub[1], "yield", "") = 0
          /\ CountNodes(lowered.gen_body.sub[1], "macro", "async_gen_yield")
                = CountNodes(decl.body, "yield", "")
          /\ \A j \in 1..Len(Stmts) :
                IsPlainYield(Stmts[j]) =>
                    lowered.gen_body.sub[1].sub[j]
                        = MacroCall("async_gen_yield",
                                    <<IF Len(Stmts[j].sub) = 0 THEN UnitE
                                      ELSE Stmts[j].sub[1]>>)
    /\ (phase = "running" /\ decl.is_async /\ StraightLine)
          => DrivenAs(ElementsBefore(1, Len(Stmts) + 1) \o <<Exhausted>>)

C10_Witness ==
    /\ phase = "running" /\ decl.is_async /\ StraightLine
    /\ Len(Stmts) = 2 /\ Len(Stmts[1].sub) = 0 /\ Len(Stmts[2].sub) = 1
    /\ Len(out) = 3
    /\ out[1] = [w |-> <<"Ready", "Some", "()">>, n |-> 0, p |-> 0]
    /\ out[3] = [w |-> <<"Ready", "None">>, n |-> 0, p |-> 0]

\* C11: in asynchronous mode an awaited future that answers Pending k times
\* and then Ready(x) is polled k + 1 times, one poll per poll_next; each
\* Pending poll makes that poll_next return Pending and no element is produced
\* or skipped; the Ready poll makes the await evaluate to x and the body goes
\* on from there.
IsYieldAwait(s) ==
    /\ s.k = "yield" /\ Len(s.sub) = 1
    /\ s.sub[1].k = "await"
    /\ s.sub[1].sub[1].k = "fut"
    /\ IsPure(s.sub[1].sub[1].sub[1])
AwaitShaped ==
    /\ \A j \in 1..Len(Stmts) : IsPlainYield(Stmts[j]) \/ IsYieldAwait(Stmts[j])
    /\ \E j \in 1..Len(Stmts) : IsYieldAwait(Stmts[j])

\* What the pulls that run statement s return, each with the answers of the
\* polls made during it.
StmtPulls(s) ==
    IF IsYieldAwait(s)
    THEN LET fut == s.sub[1].sub[1]
         IN  [j \in 1..fut.v |->
                 [r |-> [w |-> <<"Pending">>, n |-> 0, p |-> 0], polls |-> <<"Pending">>]]
             \o <<[r |-> Element(PureValue(fut.sub[1])), polls |-> <<"Ready">>]>>
    ELSE <<[r |-> StmtElements(s)[1], polls |-> <<>>]>>

RECURSIVE ExpectedPulls(_)
ExpectedPulls(j) ==
    IF j > Len(Stmts) THEN <<[r |-> Exhausted, polls |-> <<>>]>>
    ELSE StmtPulls(Stmts[j]) \o ExpectedPulls(j + 1)

RECURSIVE PollsOf(_, _)
PollsOf(pulls, n) ==
    IF n = 0 THEN <<>> ELSE PollsOf(pulls, n - 1) \o pulls[n].polls

C11_AwaitPolling ==
    /\ (phase # "source" /\ decl.is_async /\ AwaitShaped) =>
          /\ CountNodes(lowered.gen_body, "await", "") = 0
          /\ CountNodes(lowered.gen_body, "macro", "async_gen_await")
                = CountNodes(decl.body, "await", "")
          /\ Compiles(ClosureCode(lowered))
    /\ (phase = "running" /\ decl.is_async /\ AwaitShaped) =>
          LET pulls == ExpectedPulls(1)
          IN  /\ DrivenAs([j \in 1..Len(pulls) |-> pulls[j].r])
              /\ producer.gen.polls = PollsOf(pulls, Len(out))

C11_Witness ==
    /\ phase = "running" /\ decl.is_async /\ AwaitShaped
    /\ decl.yields = <<[k |-> "path", qself |-> FALSE, segments |-> <<"i32">>]>>
    /\ Len(Stmts) = 2
    /\ IsYieldAwait(Stmts[1]) /\ Stmts[1].sub[1].sub[1].v >= 1
    /\ IsPlainYield(Stmts[2])
    /\ Len(out) = Stmts[1].sub[1].sub[1].v + 3
    /\ out[Len(out)] = Exhausted
    /\ Len(producer.gen.polls) = Stmts[1].sub[1].sub[1].v + 1

\* C12 as stated: every poll of an awaited future uses the context passed to
\* the resume in progress (the current poll_next call), for the re-polls after
\* a Pending suspension inside one await and for an await reached after an
\* earlier value-yielding suspension.
C12_ContextThreaded ==
    phase = "running" => \A pr \in producer.gen.ctxs : pr[1] = pr[2]

\* C13: a pull resumes the computation once and maps what the resume returns
\* one-to-one: next gives Some(v) for Yielded(v) and None for Complete;
\* poll_next resumes with the caller's context and gives Ready(Some(v)) for
\* Yielded(Ready(v)), Pending for Yielded(Pending), Ready(None) for Complete.
LastOut == out[Len(out)]

C13_PullMapping ==
    (phase = "running" /\ pull.args # <<>>) =>
        /\ Len(pull.args) = 1
        /\ pull.raw.t = "yielded"  <=> producer.gen.st = "suspended"
        /\ pull.raw.t = "complete" <=> producer.gen.st = "returned"
        /\ pull.raw.t \in {"yielded", "complete"} => out # <<>>
        /\ ~decl.is_async =>
              /\ pull.args[1] = [w |-> <<"()">>, n |-> 0, p |-> 0]
              /\ pull.raw.t = "yielded" =>
                    LastOut = [pull.raw.v EXCEPT !.w = <<"Some">> \o @]
              /\ pull.raw.t = "complete" =>
                    LastOut = [w |-> <<"None">>, n |-> 0, p |-> 0]
        /\ decl.is_async =>
              /\ pull.ctx \in Contexts
              /\ pull.args[1] = [w |-> <<"Context">>, n |-> pull.ctx, p |-> 0]
              /\ (pull.raw.t = "yielded" /\ pull.raw.v.w[1] = "Ready") =>
                    LastOut = [pull.raw.v EXCEPT !.w = <<"Ready", "Some">> \o Tail(@)]
              /\ (pull.raw.t = "yielded" /\ pull.raw.v.w = <<"Pending">>) =>
                    LastOut = [w |-> <<"Pending">>, n |-> 0, p |-> 0]
              /\ pull.raw.t = "complete" =>
                    LastOut = [w |-> <<"Ready", "None">>, n |-> 0, p |-> 0]

C13_Witness ==
    /\ phase = "running" /\ decl.is_async
    /\ Len(out) >= 2
    /\ out[1].w = <<"Ready", "Some">>
    /\ pull.ctx = 2
    /\ pull.raw.t = "yielded" /\ pull.raw.v.w = <<"Pending">>
    /\ LastOut.w = <<"Pending">>

\* C14: the size-hint expression is evaluated once, when the producer is
\* built and before the closure is created, so it can read an argument the
\* body consumes; the pair is stored and every size_hint() call returns it,
\* however many elements have been pulled.
HonouredTokens ==
    IF Len(SizeHintAttrs) = 0 THEN [k |-> "pair", lo |-> 0, hi |-> <<>>]
    ELSE SizeHintAttrs[Len(SizeHintAttrs)].tokens
\* The value of the honoured expression on the argument as the caller passed it.
HintAtCall ==
    IF HonouredTokens.k = "iter_plus"
    THEN [lo |-> decl.arg + HonouredTokens.lo, hi |-> <<decl.arg + HonouredTokens.hi[1]>>]
    ELSE [lo |-> HonouredTokens.lo, hi |-> HonouredTokens.hi]
BarExpected ==
    <<Element(IntV(42))>> \o [j \in 1..decl.arg |-> Element(IntV(j))]
        \o <<Element(IntV(42)), Exhausted>>

C14_SizeHintOnce ==
    /\ phase # "source" =>
          /\ Cardinality({j \in 1..Len(lowered.fn_body) :
                            lowered.fn_body[j] = "let size_hint"}) = 1
          /\ \A i, j \in 1..Len(lowered.fn_body) :
                (lowered.fn_body[i] = "let size_hint" /\ lowered.fn_body[j] = "let gen")
                    => i < j
    /\ (phase = "expanded" /\ decl.body = BarBody) =>
          LET env == Call(lowered, decl.arg)
          IN  env.ok /\ env.ret # <<>> /\ env.ret[1].size_hint = HintAtCall
    /\ phase = "running" =>
          /\ producer.size_hint = HintAtCall
          /\ hints \subseteq {HintAtCall}
    /\ (phase = "running" /\ decl.body = BarBody) => DrivenAs(BarExpected)

C14_Witness ==
    /\ phase = "running" /\ decl.form = "item" /\ decl.body = BarBody
    /\ decl.arg = 3
    /\ HonouredTokens.k = "iter_plus"
    /\ hints = {[lo |-> 5, hi |-> <<5>>]}
    /\ out = BarExpected

\* C15 as stated: every annotation named size_hint is removed from the list
\* attached to what is emitted and every other annotation is passed through
\* unchanged and in its original order, for the item form and for the
\* annotations of a gen block.
OtherAttrs == SelectSeq(decl.attributes, LAMBDA a : a.path # "size_hint")

C15_AttributesPassThrough ==
    phase # "source" => lowered.attributes = OtherAttrs

\* C16: of several size_hint annotations on one item the last one in
\* annotation order is the one honoured: the emitted size-hint expression is
\* its argument tokens, wherever the annotations stand and however many they are.
C16_LastSizeHintWins ==
    /\ (phase # "source" /\ Len(SizeHintAttrs) >= 1) =>
          lowered.size_hint = SizeHintAttrs[Len(SizeHintAttrs)].tokens
    /\ (phase = "running" /\ Len(SizeHintAttrs) >= 1
            /\ SizeHintAttrs[Len(SizeHintAttrs)].tokens.k = "pair") =>
          hints \subseteq {[lo |-> SizeHintAttrs[Len(SizeHintAttrs)].tokens.lo,
                            hi |-> SizeHintAttrs[Len(SizeHintAttrs)].tokens.hi]}

C16_Witness ==
    /\ phase = "running" /\ decl.form = "item"
    /\ Len(SizeHintAttrs) = 2
    /\ SizeHintAttrs[1].tokens # SizeHintAttrs[2].tokens
    /\ lowered.size_hint = SizeHintAttrs[2].tokens
    /\ hints = {[lo |-> SizeHintAttrs[2].tokens.lo, hi |-> SizeHintAttrs[2].tokens.hi]}

\* C17: the argument list parser returns an error or a list without a
\* variadic parameter and with a receiver at most as its first element; a
\* second receiver is refused with "unexpected second method receiver", a
\* receiver after a non-receiver parameter with "unexpected method receiver",
\* and each `...` gets a diagnostic and is left out of the list.
ParamsOf(toks)    == SelectSeq(toks, LAMBDA x : x.t \in {"self", "typed"})
Positions(toks, s) == {j \in 1..Len(toks) : toks[j].t = s}
SyntaxErrors      == {"expected a function argument", "expected a comma"}

C17_ArgumentList ==
    (entry = "parse_fn_args" /\ parsed.done) =>
        LET r       == parsed
            kinds   == [j \in 1..Len(r.args) |-> r.args[j].kind]
            params  == ParamsOf(input)
            earlier == IF r.ok THEN <<>> ELSE ParamsOf(SubSeq(input, 1, r.at - 1))
        IN  /\ r.ok =>
                /\ \A j \in 1..Len(kinds) : kinds[j] \in {"self", "typed"}
                /\ \A j \in 1..Len(kinds) : kinds[j] = "self" => j = 1
                /\ kinds = [j \in 1..Len(params) |-> params[j].t]
                /\ {r.diags[j].at : j \in 1..Len(r.diags)} = Positions(input, "...")
                /\ Len(r.diags) = Cardinality(Positions(input, "..."))
            /\ ~r.ok =>
                /\ r.error # "" /\ r.args = <<>>
                /\ r.error = "unexpected second method receiver" =>
                      /\ input[r.at].t = "self"
                      /\ \E j \in 1..Len(earlier) : earlier[j].t = "self"
                /\ r.error = "unexpected method receiver" =>
                      /\ input[r.at].t = "self"
                      /\ earlier # <<>>
                      /\ \A j \in 1..Len(earlier) : earlier[j].t = "typed"
            /\ r.error \notin SyntaxErrors =>
                (r.ok <=> \A j \in 2..Len(params) : params[j].t # "self")
            /\ \A j \in 1..Len(r.diags) :
                  /\ r.diags[j].level = "error"
                  /\ r.diags[j].message = "variadic arguments are not allowed in iterator items"

C17_Witness ==
    /\ entry = "parse_fn_args" /\ parsed.done
    /\ input = <<Tok("typed"), Tok(","), Tok("self")>>
    /\ parsed.error = "unexpected method receiver"

\* The item `[prefix] intro foo(..) -> Type {..}` with a parameter list the
\* argument parser accepts: the position of its name, when the stream is one.
ArrowItemName ==
    IF entry = "parse_fn" /\ Positions(input, "->") # {}
    THEN LET j == CHOOSE k \in Positions(input, "->") : TRUE
         IN  IF /\ j >= 3 /\ Len(input) = j + 2
                /\ input[j - 2].t = "foo" /\ input[j - 1].t = "(..)"
                /\ parse_fn_args(input[j - 1].sub).ok
                /\ input[j + 1].t = "Type" /\ input[j + 2].t = "{..}"
             THEN j - 2 ELSE 0
    ELSE 0
\* Its surface form: `fn* foo`, a plain `fn foo`, or `gen [fn] foo` and the like.
IsPrefixedName ==
    /\ ArrowItemName >= 3
    /\ input[ArrowItemName - 1].t = "*" /\ input[ArrowItemName - 2].t = "fn"
IsPlainFn ==
    /\ ArrowItemName >= 2
    /\ input[ArrowItemName - 1].t = "fn"
    /\ ArrowItemName >= 3 => input[ArrowItemName - 2].t \in {"#[a]", "pub", "async"}
LooksRegularDiags == SelectSeq(parsed.diags, LAMBDA d : d.message = LooksRegular)
ParsedWithYieldType ==
    /\ parsed.ok
    /\ parsed.item[1].yields = <<input[ArrowItemName + 3].ty>>
    /\ parsed.item[1].name = ArrowItemName

GenNames == {"gen", "async_gen"}
IsGenBlock(e) == IsMacro(e) /\ e.s \in GenNames
RECURSIVE CountGenBlocks(_)
RECURSIVE CountGenBlocksOfChildren(_, _)
CountGenBlocksOfChildren(e, j) ==
    IF j > Len(e.sub) THEN 0
    ELSE CountGenBlocks(e.sub[j]) + CountGenBlocksOfChildren(e, j + 1)
CountGenBlocks(e) == (IF IsGenBlock(e) THEN 1 ELSE 0) + CountGenBlocksOfChildren(e, 1)

\* The generator blocks of i that are in the body of no other generator
\* block were replaced in o: each by a producer of its mode, asynchronous for
\* async_gen and synchronous for gen, or by the error block.
RECURSIVE OuterBlocksReplaced(_, _)
OuterBlocksReplaced(i, o) ==
    IF IsGenBlock(i)
    THEN IF i.v = 1 THEN o = CompileErrorBlock
         ELSE /\ o.k = "producer"
              /\ o.s = (IF i.s = "async_gen" THEN "AsyncIteratorItem" ELSE "IteratorItem")
              /\ CountGenBlocks(Block(i.sub)) = 0 =>
                    /\ CountNodes(o, "macro", "async_gen_yield")
                          = (IF i.s = "async_gen" THEN CountNodes(Block(i.sub), "yield", "")
                             ELSE 0)
                    /\ CountNodes(o, "yield", "")
                          = 1 + (IF i.s = "gen" THEN CountNodes(Block(i.sub), "yield", "")
                                 ELSE 0)
    ELSE IF IsMacro(i) THEN o = i
    ELSE /\ o.k = i.k /\ Len(o.sub) = Len(i.sub)
         /\ \A j \in 1..Len(i.sub) : OuterBlocksReplaced(i.sub[j], o.sub[j])

\* C19 as stated: after the visit of a function body no gen! or async_gen!
\* invocation remains, at any depth and inside the body of another generator
\* block too, and each block was expanded in its mode.
C19_NoGeneratorMacroRemains ==
    (entry = "expander" /\ parsed.done) =>
        /\ CountGenBlocks(parsed.item[1]) = 0
        /\ OuterBlocksReplaced(input, parsed.item[1])

\* What holds of the visit: the blocks outside every other generator block
\* are replaced, each in its mode, and the ones inside another block's body
\* are the only ones that remain.
RECURSIVE CountInnerGenBlocks(_)
RECURSIVE CountInnerGenBlocksOfChildren(_, _)
CountInnerGenBlocksOfChildren(e, j) ==
    IF j > Len(e.sub) THEN 0
    ELSE CountInnerGenBlocks(e.sub[j]) + CountInnerGenBlocksOfChildren(e, j + 1)
CountInnerGenBlocks(e) ==
    IF IsGenBlock(e) THEN (IF e.v = 1 THEN 0 ELSE CountGenBlocksOfChildren(e, 1))
    ELSE CountInnerGenBlocksOfChildren(e, 1)

OuterGeneratorBlocksReplaced ==
    (entry = "expander" /\ parsed.done) =>
        /\ OuterBlocksReplaced(input, parsed.item[1])
        /\ CountGenBlocks(parsed.item[1]) = CountInnerGenBlocks(input)

\* C20: a generator block whose tokens do not parse is replaced by one error
\* block, in statement and in expression position; the visit goes on, and the
\* other statements of the function come out as they do from the function
\* without the failing block, every sibling generator block expanded.
Without(s, p) == [j \in 1..(Len(s) - 1) |-> IF j < p THEN s[j] ELSE s[j + 1]]
FailsToParse(s) ==
    \/ IsGenBlock(s) /\ s.v = 1
    \/ s.k = "let" /\ IsGenBlock(s.sub[1]) /\ s.sub[1].v = 1
ErrorMarker(s) == IF s.k = "let" THEN Let(s.v, CompileErrorBlock) ELSE CompileErrorBlock

C20_ParseFailureIsLocal ==
    (entry = "expander" /\ parsed.done) =>
        /\ parsed.ok
        /\ Len(parsed.item[1].sub) = Len(input.sub)
        /\ \A p \in 1..Len(input.sub) :
              FailsToParse(input.sub[p]) =>
                  /\ parsed.item[1].sub[p] = ErrorMarker(input.sub[p])
                  /\ Without(parsed.item[1].sub, p)
                        = GenMacroExpander_visit(Block(Without(input.sub, p))).sub
                  /\ \A q \in 1..Len(input.sub) :
                        (IsGenBlock(input.sub[q]) /\ input.sub[q].v = 0)
                            => parsed.item[1].sub[q].k = "producer"

C20_Witness ==
    /\ entry = "expander" /\ parsed.done
    /\ Len(input.sub) = 2
    /\ input.sub[1] = ItemMacro("gen", <<>>, 1, <<>>)
    /\ input.sub[2] = ItemMacro("async_gen", <<>>, 0, <<Yield(Lit(1))>>)
    /\ parsed.item[1].sub[1] = CompileErrorBlock
    /\ parsed.item[1].sub[2].k = "producer"
    /\ parsed.item[1].sub[2].s = "AsyncIteratorItem"

\* C21: on every sorted input, the empty one and a single interval too,
\* merge_overlapping_intervals gives pull by pull what
\* handmade_merge_overlapping_intervals gives, up to and including the None
\* that ends both; on the empty input the first pull of each is that None.
C21_SameAsHandmade ==
    merge.gen # <<>> =>
        /\ \A j \in 1..Min(Len(merge.gout), Len(merge.hout)) : merge.gout[j] = merge.hout[j]
        /\ (merge.input = <<>> /\ merge.gout # <<>>) => merge.gout = <<<<>>>>
        /\ merge.gen.pc = "done" <=> (merge.gout # <<>> /\ merge.gout[Len(merge.gout)] = <<>>)

C21_Witness ==
    /\ merge.input = <<Interval(0, 1), Interval(1, 1), Interval(2, 2)>>
    /\ merge.gout = <<<<Interval(0, 1)>>, <<Interval(2, 2)>>, <<>>>>
    /\ merge.hout = merge.gout

\* The rewriting as the specification words it: `async gen` becomes
\* `async_gen !`, any other `gen` becomes `gen !`, a group is rewritten
\* inside, and every other tree stays, once and in its place.
RECURSIVE Marked(_, _)
Marked(toks, j) ==
    IF j > Len(toks) THEN <<>>
    ELSE IF toks[j].t = "async" /\ j < Len(toks) /\ toks[j + 1].t = "gen"
    THEN <<Tok("async_gen"), bang>> \o Marked(toks, j + 2)
    ELSE IF toks[j].t = "gen" THEN <<toks[j], bang>> \o Marked(toks, j + 1)
    ELSE IF IsGroup(toks[j]) THEN <<Paren(Marked(toks[j].sub, 1))>> \o Marked(toks, j + 1)
    ELSE <<toks[j]>> \o Marked(toks, j + 1)

\* C22 as stated: the output of macrofy is the input with every `gen`
\* followed by `!` and every adjacent `async gen` replaced by `async_gen !`,
\* every other token emitted once, unchanged and in order, a trailing `async`
\* too.
C22_MacrofyOutput ==
    (entry = "macrofy" /\ parsed.done) => parsed.item[1] = Marked(input, 1)

\* A `gen` or `async_gen` without `!` after it, or an `async gen` pair, at
\* any depth of a stream.
RECURSIVE HasUnmarked(_)
HasUnmarked(toks) ==
    \E j \in 1..Len(toks) :
        \/ toks[j].t \in {"gen", "async_gen"} /\ (j = Len(toks) \/ toks[j + 1].t # "!")
        \/ IsGroup(toks[j]) /\ HasUnmarked(toks[j].sub)

\* C23 as stated: whatever precedes a group, macrofy rewrites inside it, so
\* no `gen` is left without its marker at any depth, in a group that follows
\* an `async` too.
C23_EveryGroupEntered ==
    (entry = "macrofy" /\ parsed.done) => ~HasUnmarked(parsed.item[1])

\* `gen ! !` or `async_gen ! !` at any depth of a stream.
RECURSIVE HasDoubleMarker(_)
HasDoubleMarker(toks) ==
    \E j \in 1..Len(toks) :
        \/ /\ toks[j].t \in {"gen", "async_gen"} /\ j + 2 <= Len(toks)
           /\ toks[j + 1].t = "!" /\ toks[j + 2].t = "!"
        \/ IsGroup(toks[j]) /\ HasDoubleMarker(toks[j].sub)

\* C24 as stated: macrofy puts no second marker after a keyword that has
\* one, and macrofy(macrofy(t)) = macrofy(t).
C24_MacrofyIdempotent ==
    (entry = "macrofy" /\ parsed.done) =>
        /\ ~HasDoubleMarker(parsed.item[1])
        /\ macrofy(parsed.item[1]) = parsed.item[1]

\* What holds of macrofy: on a stream without `async` at any depth the output
\* is the marked input and every group was entered; on a stream without `gen`
\* at any depth a second application changes nothing.
RECURSIVE HasToken(_, _)
HasToken(toks, s) ==
    \E j \in 1..Len(toks) : toks[j].t = s \/ (IsGroup(toks[j]) /\ HasToken(toks[j].sub, s))

MacrofyWithoutAsync ==
    (entry = "macrofy" /\ parsed.done /\ ~HasToken(input, "async")) =>
        /\ parsed.item[1] = Marked(input, 1)
        /\ ~HasUnmarked(parsed.item[1])
MacrofyWithoutGen ==
    (entry = "macrofy" /\ parsed.done /\ ~HasToken(input, "gen")) =>
        macrofy(parsed.item[1]) = parsed.item[1]

\* The name the rewriter gives `?` in each mode.
TryNameIn(a, ty) ==
    IF a THEN (IF ty THEN "async_gen_try" ELSE "async_gen_try_bare")
    ELSE (IF ty THEN "gen_try" ELSE "gen_try_bare")

\* o is i with every `?`, await and yield rewritten for the mode, the
\* rewritten form of what is inside a construct being the operand of the
\* rewritten construct; a returned value is dropped.
RECURSIVE RewrittenInside(_, _, _, _)
RewrittenInside(i, o, a, ty) ==
    CASE i.k = "try" ->
            /\ o.k = "macro" /\ o.s = TryNameIn(a, ty) /\ Len(o.sub) = 1
            /\ RewrittenInside(i.sub[1], o.sub[1], a, ty)
      [] i.k = "await" /\ a ->
            /\ o.k = "macro" /\ o.s = "async_gen_await" /\ Len(o.sub) = 2
            /\ o.sub[2] = CtxVar
            /\ RewrittenInside(i.sub[1], o.sub[1], a, ty)
      [] i.k = "yield" /\ a ->
            /\ o.k = "macro" /\ o.s = "async_gen_yield" /\ Len(o.sub) = 1
            /\ IF Len(i.sub) = 0 THEN o.sub[1] = UnitE
               ELSE RewrittenInside(i.sub[1], o.sub[1], a, ty)
      [] i.k = "return" -> o = ReturnNone
      [] OTHER ->
            /\ o.k = i.k /\ Len(o.sub) = Len(i.sub)
            /\ \A j \in 1..Len(i.sub) : RewrittenInside(i.sub[j], o.sub[j], a, ty)

\* C25: children are rewritten before their parent, so of constructs nested
\* in one another each is rewritten, once, and the rewritten inner construct is
\* the operand of the rewritten outer one, to any depth.
C25_ChildrenFirst ==
    (entry = "visitor" /\ parsed.done) =>
        LET o == parsed.item[1]
            a == input.is_async
        IN  /\ RewrittenInside(input.body, o, a, input.is_try_yield)
            /\ CountNodes(o, "try", "") = 0
            /\ a => CountNodes(o, "await", "") = 0 /\ CountNodes(o, "yield", "") = 0
            /\ ~HasReturnValue(input.body) =>
                  /\ CountNodes(o, "macro", TryNameIn(a, input.is_try_yield))
                        = CountNodes(input.body, "try", "")
                  /\ a => /\ CountNodes(o, "macro", "async_gen_await")
                                = CountNodes(input.body, "await", "")
                          /\ CountNodes(o, "macro", "async_gen_yield")
                                = CountNodes(input.body, "yield", "")

C25_Witness ==
    /\ entry = "visitor" /\ parsed.done
    /\ input.is_async /\ input.is_try_yield
    /\ input.body = Block(<<Yield(Try(Await(Lit(1))))>>)
    /\ parsed.item[1]
          = Block(<<MacroCall("async_gen_yield",
                      <<MacroCall("async_gen_try",
                          <<MacroCall("async_gen_await", <<Lit(1), CtxVar>>)>>)>>)>>)

\* o is i with nothing changed but the constructs the rewriter is to change
\* in the mode: a node that is no return, yield, await or `?` keeps its kind
\* and fields, a bare return is itself, and without is_async a yield and an
\* await keep theirs.
RECURSIVE SameOutsideConstructs(_, _, _)
SameOutsideConstructs(i, o, a) ==
    CASE i.k = "return" -> Len(i.sub) = 0 => o = i
      [] i.k = "try" -> SameOutsideConstructs(i.sub[1], o.sub[1], a)
      [] i.k \in {"yield", "await"} /\ a ->
            Len(i.sub) > 0 => SameOutsideConstructs(i.sub[1], o.sub[1], a)
      [] OTHER ->
            /\ o.k = i.k /\ o.v = i.v /\ o.s = i.s /\ o.at = i.at
            /\ Len(o.sub) = Len(i.sub)
            /\ \A j \in 1..Len(i.sub) : SameOutsideConstructs(i.sub[j], o.sub[j], a)

\* C26: the rewriter leaves every node that is no return, yield, await or `?`
\* as it is, a bare return in both modes, and in synchronous mode every yield
\* and every await; a body without `?` and returned value, synchronous or
\* without yield and await, comes out identical and without a diagnostic.
C26_OnlyListedShapes ==
    (entry = "visitor" /\ parsed.done) =>
        /\ SameOutsideConstructs(input.body, parsed.item[1], input.is_async)
        /\ (/\ CountNodes(input.body, "try", "") = 0
            /\ ~HasReturnValue(input.body)
            /\ \/ ~input.is_async
               \/ /\ CountNodes(input.body, "yield", "") = 0
                  /\ CountNodes(input.body, "await", "") = 0)
              => parsed.item[1] = input.body /\ parsed.diags = <<>>

C26_Witness ==
    /\ entry = "visitor" /\ parsed.done
    /\ ~input.is_async
    /\ input.body = Block(<<Closure(Yield(Await(ReturnNone)))>>)
    /\ parsed.item[1] = input.body

\* The nodes of kind k in e that are inside a closure or a nested function
\* item (in: e itself is inside one).
RECURSIVE CountInNestedFns(_, _, _)
RECURSIVE CountInNestedFnsOfChildren(_, _, _, _)
CountInNestedFnsOfChildren(e, k, in, j) ==
    IF j > Len(e.sub) THEN 0
    ELSE CountInNestedFns(e.sub[j], k, in) + CountInNestedFnsOfChildren(e, k, in, j + 1)
CountInNestedFns(e, k, in) ==
    (IF in /\ e.k = k THEN 1 ELSE 0)
        + CountInNestedFnsOfChildren(e, k, in \/ e.k \in {"closure", "fn_item"}, 1)

\* C28: the rewriter goes into closures and nested function items of the
\* body: a `return <expr>` there loses its value and gets the diagnostic, and
\* a `?` there becomes the generator try form, as in the body itself.
C28_NestedFunctionsRewritten ==
    (entry = "visitor" /\ parsed.done) =>
        /\ CountInNestedFns(parsed.item[1], "try", FALSE) = 0
        /\ ~HasReturnValue(parsed.item[1])
        /\ [j \in 1..Len(parsed.diags) |-> parsed.diags[j].span]
              = ReturnValueSpans(input.body, <<>>)
        /\ ~HasReturnValue(input.body) =>
              CountInNestedFns(parsed.item[1], "macro", FALSE)
                  = CountInNestedFns(input.body, "try", FALSE)
                    + (IF input.is_async
                       THEN CountInNestedFns(input.body, "yield", FALSE)
                            + CountInNestedFns(input.body, "await", FALSE)
                       ELSE 0)

C28_Witness ==
    /\ entry = "visitor" /\ parsed.done
    /\ ~input.is_async /\ input.is_try_yield /\ input.visitor = "BodyVisitor"
    /\ input.body = Block(<<FnItem(Return(Try(Lit(1))))>>)
    /\ parsed.item[1] = Block(<<FnItem(ReturnNone)>>)
    /\ Len(parsed.diags) = 1 /\ parsed.diags[1].span = <<1, 1, 1, 1>>

\* C27: next and poll_next keep no flag: each pull resumes the computation
\* once, and a pull made after the computation completed resumes it again,
\* which panics, and reports nothing.
ResumedAfterCompletion == "generator resumed after completion"
\* A step that is a pull: in the running phase only pulls and size_hint take
\* steps, and size_hint changes nothing but hints.
IsPullStep == phase = "running" /\ hints' = hints /\ vars' # vars

C27_NoCompletionFlag ==
    [][IsPullStep =>
          /\ Len(pull'.args) = 1
          /\ producer.gen.st = "returned" =>
                /\ pull'.raw.t = "panic"
                /\ ResumedAfterCompletion \in panics'
                /\ producer'.gen.st = "panicked"
                /\ out' = out]_vars

C27_Witness ==
    /\ phase = "running" /\ decl.is_async
    /\ Len(out) = 2 /\ out[2] = Exhausted
    /\ producer.gen.st = "panicked"
    /\ pull.raw.t = "panic"
    /\ ResumedAfterCompletion \in panics

====
